---- MODULE Spec2Model ----
(***************************************************************************)
(* DDSL v0.3: the parser (src/src/parser.ts) and the expander with its     *)
(* cardinality calculator (src/unnamed/part_001, lines 330-774).           *)
(*                                                                         *)
(* A string is a sequence of one-character strings, so that the parser can *)
(* index it as the code indexes src[pos].  A JavaScript array is a         *)
(* sequence, a Map is a function on its keys, a Set built for              *)
(* deduplication is the sequence of first occurrences.                     *)
(***************************************************************************)
EXTENDS Integers, Sequences, FiniteSets, TLC

VARIABLES pc, input, ast, call, result, variableMap, prior, running

vars == <<pc, input, ast, call, result, variableMap, prior, running>>

----------------------------------------------------------------------------
(* Bounds of the model.                                                    *)

\* depth to which document operations are nested
MaxDepth == 2
\* number of fragments an input expression is assembled from
MaxFrags == 3
\* largest preview limit drawn
MaxLimit == 3
\* number of lines of an input document
MaxLines == 3
\* number of strings the model is willing to materialise for one label
MaxOut == 40

----------------------------------------------------------------------------
(* Characters.                                                             *)

LowerLetters == <<"a","b","c","d","e","f","g","h","i","j","k","l","m",
                  "n","o","p","q","r","s","t","u","v","w","x","y","z">>

UpperLetters == <<"A","B","C","D","E","F","G","H","I","J","K","L","M",
                  "N","O","P","Q","R","S","T","U","V","W","X","Y","Z">>

DigitChars == <<"0","1","2","3","4","5","6","7","8","9">>

Range(s) == {s[i] : i \in 1..Len(s)}

IndexIn(s, ch) == CHOOSE i \in 1..Len(s) : s[i] = ch

VOWELS == <<"a","e","i","o","u">>

CONSONANTS == <<"b","c","d","f","g","h","j","k","l","m","n",
                "p","q","r","s","t","v","w","x","y","z">>

UNIVERSE == LowerLetters \o DigitChars

isLetter(ch) == ch \in Range(LowerLetters)

isDigit(ch) == ch \in Range(DigitChars)

isLiteralChar(ch) == isLetter(ch) \/ isDigit(ch) \/ ch = "-"

isVarNameChar(ch) == isLetter(ch) \/ isDigit(ch) \/ ch = "-"

\* /\s/ : the whitespace characters the inputs of the model can hold
isSpace(ch) == ch \in {" ", "\t", "\n", "\r"}

\* String.prototype.charCodeAt(0) for the characters the parser lets through
charCodeAt(ch) ==
  IF isDigit(ch) THEN 47 + IndexIn(DigitChars, ch)
  ELSE IF isLetter(ch) THEN 96 + IndexIn(LowerLetters, ch)
  ELSE IF ch \in Range(UpperLetters) THEN 64 + IndexIn(UpperLetters, ch)
  ELSE 0

fromCharCode(n) ==
  IF n >= 48 /\ n <= 57 THEN DigitChars[n - 47]
  ELSE IF n >= 97 /\ n <= 122 THEN LowerLetters[n - 96]
  ELSE IF n >= 65 /\ n <= 90 THEN UpperLetters[n - 64]
  ELSE "?"

\* String.prototype.toLowerCase
toLowerCase(s) ==
  [i \in 1..Len(s) |->
     IF s[i] \in Range(UpperLetters)
     THEN LowerLetters[IndexIn(UpperLetters, s[i])]
     ELSE s[i]]

RECURSIVE trimStart(_)
trimStart(s) ==
  IF s # <<>> /\ isSpace(Head(s)) THEN trimStart(Tail(s)) ELSE s

RECURSIVE trimEnd(_)
trimEnd(s) ==
  IF s # <<>> /\ isSpace(s[Len(s)]) THEN trimEnd(SubSeq(s, 1, Len(s) - 1)) ELSE s

\* String.prototype.trim
trim(s) == trimEnd(trimStart(s))

\* String.prototype.indexOf(ch), 0-based, -1 when absent
indexOf(s, ch) ==
  IF \E i \in 1..Len(s) : s[i] = ch
  THEN (CHOOSE i \in 1..Len(s) : s[i] = ch /\ \A j \in 1..(i - 1) : s[j] # ch) - 1
  ELSE -1

\* String.prototype.slice(from, to), 0-based, to exclusive
slice(s, from, to) == SubSeq(s, from + 1, to)

\* src[i] with a 0-based index; undefined past the end
CharAt(src, i) == IF i >= 0 /\ i < Len(src) THEN src[i + 1] ELSE "undefined"

----------------------------------------------------------------------------
(* Sequences as JavaScript arrays.                                         *)

RECURSIVE Flatten(_)
Flatten(ss) == IF ss = <<>> THEN <<>> ELSE Head(ss) \o Flatten(Tail(ss))

\* [...new Set(list)] : first occurrences, in order
RECURSIVE DedupFrom(_, _)
DedupFrom(list, seen) ==
  IF list = <<>> THEN <<>>
  ELSE IF Head(list) \in seen THEN DedupFrom(Tail(list), seen)
  ELSE <<Head(list)>> \o DedupFrom(Tail(list), seen \cup {Head(list)})

NoDedup(list) == list

Dedup(list) == DedupFrom(list, {})

\* parts.join(sep)
RECURSIVE join(_, _)
join(parts, sep) ==
  IF parts = <<>> THEN <<>>
  ELSE IF Len(parts) = 1 THEN parts[1]
  ELSE parts[1] \o sep \o join(Tail(parts), sep)

\* const v = ...; the rest of the function body K reads v
Let(v, K(_)) == K(v)

----------------------------------------------------------------------------
(* JavaScript numbers.  Every number of the expander is a non-negative     *)
(* integer, Infinity or NaN.  An integer is kept exactly, as little-endian *)
(* limbs in base 10^4 without leading zero limbs, so that the comparison   *)
(* with Number.MAX_SAFE_INTEGER (2^53 - 1) is the code's own: a product or *)
(* sum of doubles exceeds 2^53 - 1 exactly when the exact integer does,    *)
(* since rounding is monotone and 2^53 is a double.                        *)

Base == 10 ^ 4

RECURSIVE ToLimbs(_)
ToLimbs(n) == IF n = 0 THEN <<>> ELSE <<n % Base>> \o ToLimbs(n \div Base)

Num(n) == [k |-> "fin", d |-> ToLimbs(n)]

Infinity == [k |-> "inf", d |-> <<>>]

NaN == [k |-> "nan", d |-> <<>>]

undefined == [k |-> "undefined", d |-> <<>>]

RECURSIVE AddLimbs(_, _, _)
AddLimbs(a, b, c) ==
  IF a = <<>> /\ b = <<>> THEN (IF c = 0 THEN <<>> ELSE <<c>>)
  ELSE LET x == IF a = <<>> THEN 0 ELSE Head(a)
           y == IF b = <<>> THEN 0 ELSE Head(b)
           s == x + y + c
       IN  <<s % Base>> \o AddLimbs(IF a = <<>> THEN a ELSE Tail(a),
                                    IF b = <<>> THEN b ELSE Tail(b),
                                    s \div Base)

RECURSIVE MulSmall(_, _, _)
MulSmall(a, m, c) ==
  IF a = <<>> THEN ToLimbs(c)
  ELSE LET p == Head(a) * m + c
       IN  <<p % Base>> \o MulSmall(Tail(a), m, p \div Base)

RECURSIVE MulLimbs(_, _)
MulLimbs(a, b) ==
  IF a = <<>> \/ b = <<>> THEN <<>>
  ELSE LET rest == MulLimbs(a, Tail(b))
           low  == IF Head(b) = 0 THEN <<>> ELSE MulSmall(a, Head(b), 0)
       IN  AddLimbs(low, IF rest = <<>> THEN <<>> ELSE <<0>> \o rest, 0)

\* a > b on limbs
RECURSIVE GtLimbs(_, _)
GtLimbs(a, b) ==
  IF Len(a) # Len(b) THEN Len(a) > Len(b)
  ELSE IF a = <<>> THEN FALSE
  ELSE IF a[Len(a)] # b[Len(b)] THEN a[Len(a)] > b[Len(b)]
  ELSE GtLimbs(SubSeq(a, 1, Len(a) - 1), SubSeq(b, 1, Len(b) - 1))

\* x + y
NAdd(x, y) ==
  IF x.k = "nan" \/ y.k = "nan" THEN NaN
  ELSE IF x.k = "inf" \/ y.k = "inf" THEN Infinity
  ELSE [k |-> "fin", d |-> AddLimbs(x.d, y.d, 0)]

\* x * y  (Infinity * 0 is NaN)
NMul(x, y) ==
  IF x.k = "nan" \/ y.k = "nan" THEN NaN
  ELSE IF x.k = "inf" THEN (IF y.d = <<>> /\ y.k = "fin" THEN NaN ELSE Infinity)
  ELSE IF y.k = "inf" THEN (IF x.d = <<>> THEN NaN ELSE Infinity)
  ELSE [k |-> "fin", d |-> MulLimbs(x.d, y.d)]

\* Math.pow(x, r) for an integer r >= 0  (pow(anything, 0) is 1)
RECURSIVE NPow(_, _)
NPow(x, r) == IF r = 0 THEN Num(1) ELSE NMul(x, NPow(x, r - 1))

\* x > y  (false when either is NaN)
NGt(x, y) ==
  IF x.k = "nan" \/ y.k = "nan" THEN FALSE
  ELSE IF x.k = "inf" THEN y.k # "inf"
  ELSE IF y.k = "inf" THEN FALSE
  ELSE GtLimbs(x.d, y.d)

NGe(x, y) == x.k # "nan" /\ y.k # "nan" /\ ~NGt(y, x)

\* Number.isFinite
isFinite(x) == x.k = "fin"

\* Number.MAX_SAFE_INTEGER = 9007199254740991
MAX_SAFE_INTEGER == [k |-> "fin", d |-> <<991, 4740, 9925, 71, 9>>]

DEFAULT_MAX_EXPANSION == Num(1000000)

\* the check without its test of finiteness
aboveSafeOnly(total) == NGt(total, MAX_SAFE_INTEGER)

\* the check after every accumulation step of the size calculator
Overflowed(total) == ~isFinite(total) \/ NGt(total, MAX_SAFE_INTEGER)

----------------------------------------------------------------------------
(* The cardinality calculator.  vm is the module-level variableMap at the  *)
(* time of the call.                                                       *)

EmptyMap == <<>>

\* setVariables: a fresh Map, each definition set in order (the last wins)
setVariables(variables) ==
  [n \in {variables[i].name : i \in 1..Len(variables)} |->
     variables[CHOOSE i \in 1..Len(variables) :
                 /\ variables[i].name = n
                 /\ \A j \in (i + 1)..Len(variables) : variables[j].name # n].elements]

\* a table that keeps a binding
staleVariables == [n \in {<<"t">>} |-> <<>>]

clearVariables == EmptyMap

RECURSIVE sequenceExpansionSize(_, _)
RECURSIVE primaryExpansionSize(_, _)

\* the loop of charclass and group: total += pow(n, r), checked each round
RECURSIVE powerSum(_, _, _, _)
powerSum(n, r, max, total) ==
  IF r > max THEN total
  ELSE Let(NAdd(total, NPow(n, r)),
           LAMBDA t : IF Overflowed(t) THEN Infinity ELSE powerSum(n, r + 1, max, t))

RECURSIVE alternationSize(_, _, _, _)
alternationSize(options, i, total, vm) ==
  IF i > Len(options) THEN total
  ELSE Let(NAdd(total, sequenceExpansionSize(options[i], vm)),
           LAMBDA t : IF Overflowed(t) THEN Infinity
                      ELSE alternationSize(options, i + 1, t, vm))

primaryExpansionSize(primary, vm) ==
  CASE primary.type = "literal" -> Num(1)
    [] primary.type = "alternation" -> alternationSize(primary.options, 1, Num(0), vm)
    [] primary.type = "charclass" ->
         powerSum(Num(Len(primary.chars)), primary.repetitionMin,
                  primary.repetitionMax, Num(0))
    [] primary.type = "group" ->
         powerSum(sequenceExpansionSize(primary.elements, vm), primary.repetitionMin,
                  primary.repetitionMax, Num(0))
    [] primary.type = "varref" ->
         IF primary.name \notin DOMAIN vm THEN Num(0)
         ELSE sequenceExpansionSize(vm[primary.name], vm)

\* the element's size without the branch that skips an optional element
elementSizeWithoutSkip(element, vm) == primaryExpansionSize(element.primary, vm)

elementExpansionSize(element, vm) ==
  Let(primaryExpansionSize(element.primary, vm),
      LAMBDA primarySize :
        IF element.optional THEN NAdd(primarySize, Num(1)) ELSE primarySize)

RECURSIVE sequenceSizeLoop(_, _, _, _)
sequenceSizeLoop(elements, i, size, vm) ==
  IF i > Len(elements) THEN size
  ELSE Let(NMul(size, elementExpansionSize(elements[i], vm)),
           LAMBDA s : IF Overflowed(s) THEN Infinity
                      ELSE sequenceSizeLoop(elements, i + 1, s, vm))

sequenceExpansionSize(elements, vm) == sequenceSizeLoop(elements, 1, Num(1), vm)

labelExpansionSize(label, vm) == sequenceExpansionSize(label.elements, vm)

RECURSIVE expansionSizeLoop(_, _, _, _)
expansionSizeLoop(labels, i, total, vm) ==
  IF i > Len(labels) THEN total
  ELSE Let(NMul(total, labelExpansionSize(labels[i], vm)),
           LAMBDA t : IF Overflowed(t) THEN Infinity
                      ELSE expansionSizeLoop(labels, i + 1, t, vm))

expansionSize(a, vm) == expansionSizeLoop(a.labels, 1, Num(1), vm)

RECURSIVE calcDocumentSizeLoop(_, _, _, _)
calcDocumentSizeLoop(expressions, i, total, vm) ==
  IF i > Len(expressions) THEN total
  ELSE Let(NAdd(total, expansionSize(expressions[i], vm)),
           LAMBDA t : IF Overflowed(t) THEN Infinity
                      ELSE calcDocumentSizeLoop(expressions, i + 1, t, vm))

calcDocumentSize(doc, vm) == calcDocumentSizeLoop(doc.expressions, 1, Num(0), vm)

\* documentExpansionSize installs the document's variables, sizes, and clears
documentExpansionSize(doc) == calcDocumentSize(doc, setVariables(doc.variables))

----------------------------------------------------------------------------
(* The expander.                                                           *)

\* one round of the nested loops: for existing of result, for item of set,
\* push [...existing, item]
CrossAppend(res, set) ==
  [k \in 1..(Len(res) * Len(set)) |->
     Append(res[((k - 1) \div Len(set)) + 1], set[((k - 1) % Len(set)) + 1])]

\* the same loops on strings: push existing + s
CrossConcat(res, set) ==
  [k \in 1..(Len(res) * Len(set)) |->
     res[((k - 1) \div Len(set)) + 1] \o set[((k - 1) % Len(set)) + 1]]

RECURSIVE cartesianProductLoop(_, _, _)
cartesianProductLoop(sets, i, res) ==
  IF i > Len(sets) THEN res
  ELSE cartesianProductLoop(sets, i + 1, CrossAppend(res, sets[i]))

cartesianProduct(sets) ==
  IF Len(sets) = 0 THEN << <<>> >> ELSE cartesianProductLoop(sets, 1, << <<>> >>)

\* the labelled loops of cartesianProductCapped for one set: the push comes
\* first, the test next.length >= limit after it
\* next.length >= limit, the test that leaves both loops
\* the test taken one push too early
capReachedEarly(length, limit) == length + 1 >= limit

\* a cap that is never reached
capNever(length, limit) == FALSE

capReached(length, limit) == length >= limit

RECURSIVE cappedPush(_, _, _, _, _)
cappedPush(res, set, limit, k, next) ==
  IF k > Len(res) * Len(set) THEN next
  ELSE Let(Append(next, Append(res[((k - 1) \div Len(set)) + 1],
                               set[((k - 1) % Len(set)) + 1])),
           LAMBDA pushed : IF capReached(Len(pushed), limit) THEN pushed
                           ELSE cappedPush(res, set, limit, k + 1, pushed))

RECURSIVE cappedLoop(_, _, _, _)
cappedLoop(sets, i, limit, res) ==
  IF i > Len(sets) THEN res
  ELSE cappedLoop(sets, i + 1, limit, cappedPush(res, sets[i], limit, 1, <<>>))

\* the product without its cap
cartesianProductWhole(sets, limit) == cartesianProduct(sets)

cartesianProductCapped(sets, limit) ==
  IF Len(sets) = 0 THEN << <<>> >> ELSE cappedLoop(sets, 1, limit, << <<>> >>)

RECURSIVE expandCharClassFixedLoop(_, _, _, _)
expandCharClassFixedLoop(chars, repetition, i, results) ==
  IF i >= repetition THEN results
  ELSE expandCharClassFixedLoop(chars, repetition, i + 1, CrossConcat(results, chars))

\* the class's characters once, whatever the repetition
expandCharClassOnce(chars, repetition) == chars

\* chars: the class's characters, each as a one-character string
expandCharClassFixed(chars, repetition) ==
  IF repetition = 0 THEN << <<>> >>
  ELSE expandCharClassFixedLoop(chars, repetition, 1, chars)

RECURSIVE expandCharClassLoop(_, _, _, _)
expandCharClassLoop(chars, rep, max, results) ==
  IF rep > max THEN results
  ELSE expandCharClassLoop(chars, rep + 1, max,
         IF rep = 0 THEN Append(results, <<>>)
         ELSE results \o expandCharClassFixed(chars, rep))

expandCharClass(chars, min, max) ==
  expandCharClassLoop([i \in 1..Len(chars) |-> <<chars[i]>>], min, max, <<>>)

RECURSIVE expandGroupFixedLoop(_, _, _, _)
expandGroupFixedLoop(strings, repetition, i, results) ==
  IF i >= repetition THEN results
  ELSE expandGroupFixedLoop(strings, repetition, i + 1, CrossConcat(results, strings))

\* the body's strings once, whatever the repetition
expandGroupOnce(strings, repetition) == strings

expandGroupFixed(strings, repetition) ==
  IF repetition = 0 THEN << <<>> >>
  ELSE IF repetition = 1 THEN strings
  ELSE expandGroupFixedLoop(strings, repetition, 1, strings)

RECURSIVE expandGroupLoop(_, _, _, _)
expandGroupLoop(innerStrings, rep, max, results) ==
  IF rep > max THEN results
  ELSE expandGroupLoop(innerStrings, rep + 1, max,
         IF rep = 0 THEN Append(results, <<>>)
         ELSE results \o expandGroupFixed(innerStrings, rep))

RECURSIVE expandSequence(_, _)
RECURSIVE expandPrimary(_, _)

expandGroup(elements, min, max, vm) ==
  expandGroupLoop(expandSequence(elements, vm), min, max, <<>>)

\* the set the alternation's results are passed through
AlternationDedup(results) == Dedup(results)

expandPrimary(primary, vm) ==
  CASE primary.type = "literal" -> <<primary.value>>
    [] primary.type = "alternation" ->
         AlternationDedup(Flatten([i \in 1..Len(primary.options) |->
                                     expandSequence(primary.options[i], vm)]))
    [] primary.type = "charclass" ->
         expandCharClass(primary.chars, primary.repetitionMin, primary.repetitionMax)
    [] primary.type = "group" ->
         expandGroup(primary.elements, primary.repetitionMin, primary.repetitionMax, vm)
    [] primary.type = "varref" ->
         IF primary.name \notin DOMAIN vm THEN <<>>
         ELSE expandSequence(vm[primary.name], vm)

expandElement(element, vm) ==
  Let(expandPrimary(element.primary, vm),
      LAMBDA primaryStrings :
        IF element.optional THEN Dedup(<< <<>> >> \o primaryStrings)
        ELSE primaryStrings)

\* list.map(parts => parts.join(sep))
joinAll(product, sep) == [k \in 1..Len(product) |-> join(product[k], sep)]

expandSequence(elements, vm) ==
  joinAll(cartesianProduct([i \in 1..Len(elements) |-> expandElement(elements[i], vm)]),
          <<>>)

expandLabel(label, vm) == expandSequence(label.elements, vm)

ExpansionError == [type |-> "ExpansionError"]

\* options?.maxExpansion ?? DEFAULT_MAX_EXPANSION
maxExpansionOf(options) ==
  IF options.maxExpansion.k = "undefined" THEN DEFAULT_MAX_EXPANSION
  ELSE options.maxExpansion

\* the guard without its maxExpansion > 0 half
limitFinite(maxExpansion) == maxExpansion # Infinity

\* maxExpansion > 0 && maxExpansion !== Infinity
limitEnabled(maxExpansion) == NGt(maxExpansion, Num(0)) /\ maxExpansion # Infinity

\* the deduplication of the finished list of expand
ExpandDedup(domains) == Dedup(domains)

\* the test with >= in place of >
reaches(size, maxExpansion) == NGe(size, maxExpansion)

\* size > maxExpansion, the test that throws
exceeds(size, maxExpansion) == NGt(size, maxExpansion)

\* ast.labels.map(expandLabel)
labelSetsOf(a, vm) == [i \in 1..Len(a.labels) |-> expandLabel(a.labels[i], vm)]

expand(a, options, vm) ==
  IF limitEnabled(maxExpansionOf(options))
     /\ exceeds(expansionSize(a, vm), maxExpansionOf(options))
  THEN ExpansionError
  ELSE [type |-> "domains",
        domains |-> ExpandDedup(joinAll(cartesianProduct(labelSetsOf(a, vm)), <<".">>))]

disabled == [maxExpansion |-> Infinity]

\* the set replaced by the latest expression's domains
keepLatest(allDomains, domains) == domains

\* for (const d of domains) allDomains.add(d), the Set kept in insertion order
addAll(allDomains, domains) == Dedup(allDomains \o domains)

RECURSIVE expandDocumentLoop(_, _, _, _)
expandDocumentLoop(expressions, i, allDomains, vm) ==
  IF i > Len(expressions) THEN allDomains
  ELSE expandDocumentLoop(expressions, i + 1,
         addAll(allDomains, expand(expressions[i], disabled, vm).domains), vm)

\* expandDocument between setVariables and the clearVariables of its finally
expandDocument(doc, options) ==
  Let(setVariables(doc.variables),
      LAMBDA vm :
        IF limitEnabled(maxExpansionOf(options))
           /\ exceeds(calcDocumentSize(doc, vm), maxExpansionOf(options))
        THEN ExpansionError
        ELSE [type |-> "domains",
              domains |-> expandDocumentLoop(doc.expressions, 1, <<>>, vm)])

\* the deduplication of the finished list of preview
PreviewDedup(domains) == Dedup(domains)

preview(a, limit, options, vm) ==
  Let(expansionSize(a, vm),
      LAMBDA total :
        IF limitEnabled(maxExpansionOf(options)) /\ exceeds(total, maxExpansionOf(options))
        THEN ExpansionError
        ELSE [type |-> "preview",
              domains |-> PreviewDedup(joinAll(
                            cartesianProductCapped(labelSetsOf(a, vm), limit), <<".">>)),
              total |-> total,
              truncated |-> NGt(total, Num(limit))])

RECURSIVE previewDocumentLoop(_, _, _, _, _)
previewDocumentLoop(expressions, i, remaining, allDomains, vm) ==
  IF i > Len(expressions) \/ remaining <= 0 THEN allDomains
  ELSE Let(preview(expressions[i], remaining, disabled, vm),
           LAMBDA r : previewDocumentLoop(expressions, i + 1, remaining - Len(r.domains),
                                          allDomains \o r.domains, vm))

\* the slice that stops one entry early
sliceBelow(list, limit) == SubSeq(list, 1, IF Len(list) < limit THEN Len(list) ELSE limit - 1)

\* list.slice(0, limit) for a limit >= 0
sliceTo(list, limit) == SubSeq(list, 1, IF Len(list) < limit THEN Len(list) ELSE limit)

previewDocument(doc, limit, options) ==
  Let(setVariables(doc.variables),
      LAMBDA vm :
        Let(calcDocumentSize(doc, vm),
            LAMBDA total :
              IF limitEnabled(maxExpansionOf(options))
                 /\ exceeds(total, maxExpansionOf(options))
              THEN ExpansionError
              ELSE [type |-> "preview",
                    domains |-> sliceTo(Dedup(previewDocumentLoop(doc.expressions, 1,
                                                                  limit, <<>>, vm)), limit),
                    total |-> total,
                    truncated |-> NGt(total, Num(limit))]))

----------------------------------------------------------------------------
(* The parser.  Each production takes the source and the position it       *)
(* starts at and yields either the node with the position after it, or the *)
(* error it throws.  parseExpression and parseSequenceString hold the same *)
(* nested productions; they are modelled once.                             *)

Ok(node, pos) == [ok |-> TRUE, node |-> node, pos |-> pos]

ParseError(message, position) ==
  [ok |-> FALSE, type |-> "ParseError", message |-> message, position |-> position]

\* a plain Error, which carries no position
PlainError(message) ==
  [ok |-> FALSE, type |-> "Error", message |-> message, position |-> -1]

\* the rest K of a production runs only if the step r did not throw
Bind(r, K(_)) == IF r.ok THEN K(r) ELSE r

\* the smallest character first, as Array.prototype.sort orders single characters
RECURSIVE sort(_)
sort(S) ==
  IF S = {} THEN <<>>
  ELSE LET m == CHOOSE c \in S : \A o \in S : charCodeAt(c) <= charCodeAt(o)
       IN  <<m>> \o sort(S \ {m})

RECURSIVE parseInt(_)
parseInt(numStr) ==
  IF numStr = <<>> THEN 0
  ELSE 10 * parseInt(SubSeq(numStr, 1, Len(numStr) - 1))
       + charCodeAt(numStr[Len(numStr)]) - 48

\* expandRange: the characters from start to end, or a plain Error
expandRange(start, end) ==
  LET s == charCodeAt(start)
      e == charCodeAt(end)
  IN  IF s > e THEN PlainError("Invalid range")
      ELSE Ok({fromCharCode(i) : i \in s..e}, 0)

RECURSIVE skipDigits(_, _)
skipDigits(src, i) ==
  IF i < Len(src) /\ isDigit(CharAt(src, i)) THEN skipDigits(src, i + 1) ELSE i

\* the lookahead that stops at the brace
braceAhead(src, pos) == CharAt(src, pos) = "{"

isRepetitionAhead(src, pos) ==
  IF CharAt(src, pos) # "{" THEN FALSE
  ELSE IF pos + 1 >= Len(src) \/ ~isDigit(CharAt(src, pos + 1)) THEN FALSE
  ELSE LET i == skipDigits(src, pos + 1)
       IN  IF i >= Len(src) THEN FALSE
           ELSE IF CharAt(src, i) = "}" THEN TRUE
           ELSE IF CharAt(src, i) # "," THEN FALSE
           ELSE IF i + 1 >= Len(src) \/ ~isDigit(CharAt(src, i + 1)) THEN FALSE
           ELSE LET j == skipDigits(src, i + 1)
                IN  j < Len(src) /\ CharAt(src, j) = "}"

\* the digit loops of parseRepetition: stops holds the characters that end it
RECURSIVE readCount(_, _, _, _, _)
readCount(src, pos, stops, message, numStr) ==
  IF pos < Len(src) /\ CharAt(src, pos) \notin stops
  THEN IF ~isDigit(CharAt(src, pos))
       THEN ParseError(message, pos)
       ELSE readCount(src, pos + 1, stops, message, Append(numStr, CharAt(src, pos)))
  ELSE Ok(numStr, pos)

parseRepetition(src, start) ==
  LET first == readCount(src, start + 1, {"}", ","}, "Expected digit in repetition", <<>>)
  IN  IF ~first.ok THEN first
      ELSE IF first.node = <<>> THEN ParseError("Empty repetition count", first.pos)
      ELSE LET min == parseInt(first.node)
               second == IF CharAt(src, first.pos) = ","
                         THEN readCount(src, first.pos + 1, {"}"},
                                        "Expected digit in repetition max", <<>>)
                         ELSE Ok(first.node, first.pos)
           IN  IF ~second.ok THEN second
               ELSE IF second.node = <<>>
                    THEN ParseError("Empty repetition max", second.pos)
               ELSE IF CharAt(src, second.pos) # "}"
                    THEN ParseError("Unterminated repetition", start)
               ELSE IF min > parseInt(second.node)
                    THEN ParseError("Invalid repetition range", start)
               ELSE Ok([min |-> min, max |-> parseInt(second.node)], second.pos + 1)

\* the optional repetition after a character class or a group
repetitionAfter(src, pos) ==
  IF isRepetitionAhead(src, pos) THEN parseRepetition(src, pos)
  ELSE Ok([min |-> 1, max |-> 1], pos)

RECURSIVE parseLiteralLoop(_, _, _)
parseLiteralLoop(src, pos, value) ==
  IF pos < Len(src) /\ isLiteralChar(CharAt(src, pos))
  THEN parseLiteralLoop(src, pos + 1, Append(value, CharAt(src, pos)))
  ELSE Ok([type |-> "literal", value |-> value], pos)

parseLiteral(src, pos) == parseLiteralLoop(src, pos, <<>>)

RECURSIVE readName(_, _, _)
readName(src, pos, name) ==
  IF pos < Len(src) /\ isVarNameChar(CharAt(src, pos))
  THEN readName(src, pos + 1, Append(name, CharAt(src, pos)))
  ELSE Ok(name, pos)

\* the reference accepted without the test varMap.has(name)
parseVarRefUnchecked(src, pos, varMap) ==
  LET n == readName(src, pos + 1, <<>>)
  IN  IF n.node = <<>> THEN ParseError("Empty variable name", n.pos)
      ELSE Ok([type |-> "varref", name |-> n.node], n.pos)

parseVarRef(src, pos, varMap) ==
  LET n == readName(src, pos + 1, <<>>)
  IN  IF n.node = <<>> THEN ParseError("Empty variable name", n.pos)
      ELSE IF n.node \notin DOMAIN varMap THEN ParseError("Undefined variable", n.pos)
      ELSE Ok([type |-> "varref", name |-> n.node], n.pos)

RECURSIVE readClassName(_, _, _)
readClassName(src, pos, className) ==
  IF pos < Len(src) /\ CharAt(src, pos) # ":"
  THEN readClassName(src, pos + 1, Append(className, CharAt(src, pos)))
  ELSE Ok(className, pos)

\* the while loop of parseCharClass; the node is the set collected
RECURSIVE charClassLoop(_, _, _, _)
charClassLoop(src, start, pos, charSet) ==
  IF ~(pos < Len(src) /\ CharAt(src, pos) # "]") THEN Ok(charSet, pos)
  ELSE IF CharAt(src, pos) = "[" /\ pos + 1 < Len(src) /\ CharAt(src, pos + 1) = ":"
  THEN LET cn == readClassName(src, pos + 2, <<>>)
       IN  IF CharAt(src, cn.pos) # ":" \/ CharAt(src, cn.pos + 1) # "]"
           THEN ParseError("Invalid named class syntax", cn.pos)
           ELSE IF cn.node = <<"v">>
           THEN charClassLoop(src, start, cn.pos + 2, charSet \cup Range(VOWELS))
           ELSE IF cn.node = <<"c">>
           THEN charClassLoop(src, start, cn.pos + 2, charSet \cup Range(CONSONANTS))
           ELSE ParseError("Unknown named class", start)
  ELSE LET ch == CharAt(src, pos)
       IN  IF ~isLetter(ch) /\ ~isDigit(ch)
           THEN ParseError("Invalid character in character class", pos)
           ELSE IF CharAt(src, pos + 1) = "-" /\ pos + 2 < Len(src)
                   /\ CharAt(src, pos + 2) # "]"
           THEN LET end == CharAt(src, pos + 2)
                IN  IF (isLetter(ch) /\ isLetter(end)) \/ (isDigit(ch) /\ isDigit(end))
                    THEN LET range == expandRange(ch, end)
                         IN  IF ~range.ok THEN range
                             ELSE charClassLoop(src, start, pos + 3,
                                                charSet \cup range.node)
                    ELSE ParseError("Invalid range", start)
           ELSE charClassLoop(src, start, pos + 1, charSet \cup {ch})

\* the collected set, sorted, with the negation left out
charsCollected(negated, charSet) == sort(charSet)

\* negation, applied once after the loop
charsOf(negated, charSet) ==
  IF negated THEN sort(Range(UNIVERSE) \ charSet) ELSE sort(charSet)

parseCharClass(src, start) ==
  LET negated == CharAt(src, start + 1) = "^"
      first == IF negated THEN start + 2 ELSE start + 1
  IN  IF CharAt(src, first) = "]" THEN ParseError("Empty character class", first)
      ELSE Bind(charClassLoop(src, start, first, {}),
             LAMBDA body :
               IF CharAt(src, body.pos) # "]"
               THEN ParseError("Unterminated character class", start)
               ELSE Bind(repetitionAfter(src, body.pos + 1),
                      LAMBDA rep :
                        Ok([type |-> "charclass",
                            chars |-> charsOf(negated, body.node),
                            negated |-> negated,
                            repetitionMin |-> rep.node.min,
                            repetitionMax |-> rep.node.max], rep.pos)))

RECURSIVE parseSequence(_, _, _)
RECURSIVE parsePrimary(_, _, _)

parseElement(src, pos, varMap) ==
  Bind(parsePrimary(src, pos, varMap),
    LAMBDA primary :
      IF CharAt(src, primary.pos) = "?"
      THEN Ok([primary |-> primary.node, optional |-> TRUE], primary.pos + 1)
      ELSE Ok([primary |-> primary.node, optional |-> FALSE], primary.pos))

RECURSIVE parseSequenceLoop(_, _, _, _)
parseSequenceLoop(src, pos, elements, varMap) ==
  IF pos < Len(src) /\ CharAt(src, pos) \notin {".", ",", ")", "}"}
  THEN Bind(parseElement(src, pos, varMap),
         LAMBDA el : parseSequenceLoop(src, el.pos, Append(elements, el.node), varMap))
  ELSE Ok(elements, pos)

parseSequence(src, pos, varMap) == parseSequenceLoop(src, pos, <<>>, varMap)

parseGroup(src, start, varMap) ==
  Bind(parseSequence(src, start + 1, varMap),
    LAMBDA body :
      IF Len(body.node) = 0 THEN ParseError("Empty group", start)
      ELSE IF CharAt(src, body.pos) # ")" THEN ParseError("Expected ')'", body.pos)
      ELSE Bind(repetitionAfter(src, body.pos + 1),
             LAMBDA rep :
               Ok([type |-> "group", elements |-> body.node,
                   repetitionMin |-> rep.node.min,
                   repetitionMax |-> rep.node.max], rep.pos)))

\* one option: a sequence that must not be empty
alternationItem(src, pos, varMap) ==
  Bind(parseSequence(src, pos, varMap),
    LAMBDA seq : IF Len(seq.node) = 0 THEN ParseError("Empty alternation item", seq.pos)
                 ELSE seq)

\* the options after the first: while (peek() === ',')
RECURSIVE alternationLoop(_, _, _, _)
alternationLoop(src, pos, options, varMap) ==
  IF CharAt(src, pos) # "," THEN Ok(options, pos)
  ELSE Bind(alternationItem(src, pos + 1, varMap),
         LAMBDA seq : alternationLoop(src, seq.pos, Append(options, seq.node), varMap))

\* a parseAlternation that lets a single option through
acceptOneOption(options) == FALSE

\* options.length < 2, the test that rejects a single option
tooFewOptions(options) == Len(options) < 2

parseAlternation(src, start, varMap) ==
  Bind(alternationItem(src, start + 1, varMap),
    LAMBDA firstSeq :
      Bind(alternationLoop(src, firstSeq.pos, <<firstSeq.node>>, varMap),
        LAMBDA rest :
          IF CharAt(src, rest.pos) # "}" THEN ParseError("Expected '}'", rest.pos)
          ELSE IF tooFewOptions(rest.node)
               THEN ParseError("Alternation must have at least two options", start)
          ELSE Ok([type |-> "alternation", options |-> rest.node], rest.pos + 1)))

parsePrimary(src, pos, varMap) ==
  LET ch == CharAt(src, pos)
  IN  IF ch = "[" THEN parseCharClass(src, pos)
      ELSE IF ch = "{" THEN parseAlternation(src, pos, varMap)
      ELSE IF ch = "(" THEN parseGroup(src, pos, varMap)
      ELSE IF ch = "@" THEN parseVarRef(src, pos, varMap)
      ELSE IF pos < Len(src) /\ isLiteralChar(ch) THEN parseLiteral(src, pos)
      ELSE ParseError("Unexpected character", pos)

\* the test that looks at the top-level elements only, into no group body and
\* no alternation option
canProduceEmptyShallow(elements) ==
  \A i \in 1..Len(elements) :
    \/ elements[i].optional
    \/ /\ elements[i].primary.type \in {"charclass", "group"}
       /\ elements[i].primary.repetitionMin = 0

RECURSIVE canProduceEmpty(_)
canProduceEmpty(elements) ==
  \A i \in 1..Len(elements) :
    LET el == elements[i]
        p  == el.primary
    IN  IF el.optional THEN TRUE
        ELSE IF p.type = "charclass" /\ p.repetitionMin = 0 THEN TRUE
        ELSE IF p.type = "group"
             THEN (IF p.repetitionMin = 0 THEN TRUE ELSE canProduceEmpty(p.elements))
        ELSE IF p.type = "alternation"
             THEN \E o \in 1..Len(p.options) : canProduceEmpty(p.options[o])
        ELSE FALSE

\* a parseLabel that rejects no label
acceptEveryLabel(elements) == FALSE

\* the validity test of parseLabel
labelRejected(elements) == canProduceEmpty(elements)

parseLabel(src, startPos, varMap) ==
  IF startPos >= Len(src) \/ CharAt(src, startPos) = "."
  THEN ParseError("Empty label", startPos)
  ELSE Bind(parseSequence(src, startPos, varMap),
         LAMBDA seq :
           IF Len(seq.node) = 0 THEN ParseError("Empty label", startPos)
           ELSE IF labelRejected(seq.node)
                THEN ParseError("Label must produce at least one character", startPos)
           ELSE Ok([type |-> "label", elements |-> seq.node], seq.pos))

\* labels.push(parseLabel()) for the first label and after each '.'
RECURSIVE parseDomainLoop(_, _, _, _)
parseDomainLoop(src, pos, labels, varMap) ==
  Bind(parseLabel(src, pos, varMap),
    LAMBDA label :
      IF label.pos < Len(src) /\ CharAt(src, label.pos) = "."
      THEN parseDomainLoop(src, label.pos + 1, Append(labels, label.node), varMap)
      ELSE Ok([type |-> "domain", labels |-> Append(labels, label.node)], label.pos))

parseDomain(src, varMap) == parseDomainLoop(src, 0, <<>>, varMap)

\* src.search(/\s/)
searchSpace(src) ==
  (CHOOSE i \in 1..Len(src) : isSpace(src[i]) /\ \A j \in 1..(i - 1) : ~isSpace(src[j])) - 1

hasSpace(src) == \E i \in 1..Len(src) : isSpace(src[i])

\* if (pos < src.length) throw, after the top production
atEnd(src, r) == IF r.pos < Len(src) THEN ParseError("Unexpected character", r.pos) ELSE r

parseExpression(text, varMap) ==
  Let(toLowerCase(text),
    LAMBDA src :
      IF Len(src) = 0 THEN ParseError("Empty expression", 0)
      ELSE IF hasSpace(src) THEN ParseError("Whitespace is not permitted", searchSpace(src))
      ELSE Bind(parseDomain(src, varMap), LAMBDA a : atEnd(src, a)))

parseSequenceString(text, varMap) ==
  Let(toLowerCase(text),
    LAMBDA src :
      IF hasSpace(src) THEN ParseError("Whitespace is not permitted", searchSpace(src))
      ELSE Bind(parseSequence(src, 0, varMap), LAMBDA elements : atEnd(src, elements)))

\* a parse that knows a variable a
parseWithTable(text) == parseExpression(text, [n \in {<<"a">>} |-> <<>>])

parse(text) == parseExpression(text, EmptyMap)

----------------------------------------------------------------------------
(* Documents.                                                              *)

\* Map.prototype.set
MapSet(m, key, value) == [n \in DOMAIN m \cup {key} |-> IF n = key THEN value ELSE m[n]]

\* varStrings.get(name) === undefined
isUndefined(name, varStrings) == name \notin DOMAIN varStrings

RECURSIVE substituteLoop(_, _, _, _)
substituteLoop(line, i, varStrings, res) ==
  IF i >= Len(line) THEN Ok(res, i)
  ELSE IF CharAt(line, i) # "@"
  THEN substituteLoop(line, i + 1, varStrings, Append(res, CharAt(line, i)))
  ELSE LET n == readName(line, i + 1, <<>>)
       IN  IF Len(n.node) = 0 THEN ParseError("Empty variable name", n.pos)
           ELSE IF isUndefined(n.node, varStrings)
                THEN ParseError("Undefined variable", n.pos)
           ELSE substituteLoop(line, n.pos, varStrings, res \o varStrings[n.node])

\* a substitution that writes each value twice
substituteVariablesTwice(line, varStrings) ==
  substituteLoop(line, 0, [n \in DOMAIN varStrings |-> varStrings[n] \o varStrings[n]], <<>>)

substituteVariables(line, varStrings) == substituteLoop(line, 0, varStrings, <<>>)

startsWithAt(line) == Len(line) > 0 /\ line[1] = "@"

\* a line that is an expression: substitute, then parse
expressionLine(line, varStrings) ==
  Bind(substituteVariables(line, varStrings),
    LAMBDA substituted : parseExpression(substituted.node, EmptyMap))

\* a parseDocument that lets a name be defined again
neverDefined(name, varStrings) == FALSE

\* varStrings.has(name), the test for a redefinition
alreadyDefined(name, varStrings) == name \in DOMAIN varStrings

\* a line @name = value: the definition it registers, or the error
definitionLine(line, eqIdx, varStrings) ==
  LET name  == toLowerCase(trim(slice(line, 1, eqIdx)))
      value == trim(slice(line, eqIdx + 1, Len(line)))
  IN  IF Len(name) = 0 THEN ParseError("Empty variable name", 0)
      ELSE IF alreadyDefined(name, varStrings)
           THEN ParseError("Variable is already defined", 0)
      ELSE Bind(substituteVariables(value, varStrings),
             LAMBDA substituted :
               IF Len(substituted.node) = 0
               THEN ParseError("Empty variable definition", 0)
               ELSE Bind(parseSequenceString(substituted.node, EmptyMap),
                      LAMBDA elements :
                        Ok([name |-> name, text |-> substituted.node,
                            elements |-> elements.node], 0)))

RECURSIVE parseDocumentLoop(_, _, _, _, _)
parseDocumentLoop(lines, i, variables, expressions, varStrings) ==
  IF i > Len(lines)
  THEN Ok([type |-> "document", variables |-> variables, expressions |-> expressions], 0)
  ELSE IF startsWithAt(lines[i]) /\ indexOf(lines[i], "=") # -1
  THEN Bind(definitionLine(lines[i], indexOf(lines[i], "="), varStrings),
         LAMBDA def :
           parseDocumentLoop(lines, i + 1,
             Append(variables, [type |-> "vardef", name |-> def.node.name,
                                elements |-> def.node.elements]),
             expressions,
             MapSet(varStrings, def.node.name, def.node.text)))
  ELSE Bind(expressionLine(lines[i], varStrings),
         LAMBDA domain :
           parseDocumentLoop(lines, i + 1, variables,
                             Append(expressions, domain.node), varStrings))

parseDocument(lines) == parseDocumentLoop(lines, 1, <<>>, <<>>, EmptyMap)

----------------------------------------------------------------------------
(* The inputs the model draws.                                             *)

\* the pieces an input expression is assembled from
Fragments ==
  { <<"B">>, <<".">>, <<"?">>, <<"(","a">>, <<")">>,
    <<"{","a","?",",","a","b","}">>, <<"[","a","b","]">>,
    <<"{","0",",","1","}">>, <<"{","2","}">> }

FragmentTexts ==
  UNION {{Flatten(f) : f \in [1..n -> Fragments]} : n \in 0..MaxFrags}

\* expressions of the test suite and of the README, and sizes around the limits
Corpus ==
  { <<"{","c","a","r",",","b","i","k","e","}",".","c","o","m">>,
    <<"{","c","a","r",",","c","a","r","}",".","c","o","m">>,
    <<"c","a","r","(","s",")","?",".","c","o","m">>,
    <<"[","a","-","z","]","{","3","}",".","a","i">>,
    <<"[","^","a","e","i","o","u","]","{","3","}",".","c","o","m">>,
    <<"[","[",":","c",":","]","]","[","[",":","v",":","]","]","[","[",":","c",":","]","]",
      ".","a","i">>,
    <<"[","a","-","z","]","{","1","0","}",".","c","o","m">>,
    <<"[","0","-","9","]","{","6","}">>,
    <<"[","a","-","z","0","-","9","]","{","1","0","}">>,
    <<"[","a","-","z","0","-","9","]","{","1","1","}">>,
    <<"[","a","-","z","0","-","9","]",".","[","a","-","z","0","-","9","]">>,
    <<"(","a","?","b","?",")","{","2","}",".","x","-","1">>,
    <<"[","^","b","-","z","1","-","9","]","{","2","}">>,
    <<"{","c",",","{","a",",","b","}","c","}","(","a","(","b",")","{","0",",","1","}",")">>,
    <<"[","^","a","-","z","0","-","9","]",".","b">>,
    <<"[","z","-","a","]">>,
    <<"[",":","v",":","]">>,
    <<"[",":","c",":","]","{","2","}">>,
    <<"[",":","v",":","]","?","b">>,
    <<"[","a","b","]","{","2",",","1","}">>,
    <<"(",")">>,
    <<"{","a","}">>,
    <<"[","a","b","]","{","c","d",",","e","f","}">>,
    <<"[","a","b","]","{","2","}","{","c","d",",","e","f","}">>,
    <<"(","a",")","{","c","d",",","e","f","}">>,
    <<"[","a","b","]","{","1",",","2","}","[","a","b","]","{","1",",","2","}">>,
    <<"[","a","b","]","{","1",",","}">>,
    <<"(","a",")","{","2">>,
    <<"[","^","a","-","z","0","-","9","]","[","a","-","z","0","-","9","]","{","1","1","}">>,
    <<"[","a","-","z","0","-","9","]","{","6","}","[","a","-","z","0","-","9","]","{","6","}",
      "[","^","a","-","z","0","-","9","]">>,
    <<"a","(","[","a","-","z","0","-","9","]","{","1","1","}",")","{","0","}">>,
    <<"[","^","[",":","v",":","]","x","-","z","]">>,
    <<"[","^","x","-","z","[",":","v",":","]","]">>,
    <<"c","(","a","?","b","?",")","{","2","}">>,
    <<"b","(","a",")","?","(","a",")","?">>,
    <<"a"," ","b">>, <<"@","a",".","c","o","m">> }

Inputs == FragmentTexts \cup Corpus

\* nodes as a caller of the expander builds them from the exported types
LiteralElement(value) ==
  [primary |-> [type |-> "literal", value |-> value], optional |-> FALSE]

VarRefElement(name, optional) ==
  [primary |-> [type |-> "varref", name |-> name], optional |-> optional]

DomainOf(labels) ==
  [type |-> "domain",
   labels |-> [i \in 1..Len(labels) |-> [type |-> "label", elements |-> labels[i]]]]

\* ASTs with a variable reference, which parse never returns:
\* @t.com, a@t?.com and {x,@t}
HandBuilt ==
  { DomainOf(<< <<VarRefElement(<<"t">>, FALSE)>>, <<LiteralElement(<<"c","o","m">>)>> >>),
    DomainOf(<< <<LiteralElement(<<"a">>), VarRefElement(<<"t">>, TRUE)>>,
                <<LiteralElement(<<"c","o","m">>)>> >>),
    DomainOf(<< << [primary |-> [type |-> "alternation",
                                 options |-> << <<LiteralElement(<<"x">>)>>,
                                                <<VarRefElement(<<"t">>, FALSE)>> >>],
                    optional |-> FALSE] >> >>) }

\* the lines an input document is assembled from
DocLines ==
  { <<"@","a"," ","="," ","{","x",",","y","}">>,
    <<"@","a","=","z">>,
    <<"@","b","=","@","a","?","z">>,
    <<"@","a","=","@","b">>,
    <<"@","a","=","@","a">>,
    <<"a",".","@","a">>,
    <<"@","a",".","@","b">>,
    <<"{","x",",","a","}",".","x">> }

Documents == UNION {[1..n -> DocLines] : n \in 0..MaxLines}

Limits == 0..MaxLimit

\* the maxExpansion a caller passes: none, 0, Infinity, or a small number
\* that some sizes reach, some exceed and some stay below
Options == {[maxExpansion |-> m] : m \in {undefined, Num(0), Infinity, Num(2)}}

----------------------------------------------------------------------------
(* The state machine: one input is parsed, or an AST is built by hand, then *)
(* one API function is called on the AST.  variableMap is the expander's   *)
(* module-level table.  prior keeps the first expand call and its result,  *)
(* running the document operations in progress (see the session below).    *)

None == [type |-> "none"]

Init ==
  /\ pc = "idle"
  /\ input = None
  /\ ast = None
  /\ call = None
  /\ result = None
  /\ variableMap = EmptyMap
  /\ prior = None
  /\ running = <<>>

Parse(text) ==
  /\ pc = "idle"
  /\ input' = [type |-> "expression", text |-> text]
  /\ ast' = parse(text)
  /\ pc' = IF ast'.ok THEN "parsed" ELSE "failed"
  /\ UNCHANGED <<call, result, variableMap, prior, running>>

ParseDocument(lines) ==
  /\ pc = "idle"
  /\ input' = [type |-> "document", lines |-> lines]
  /\ ast' = parseDocument(lines)
  /\ pc' = IF ast'.ok THEN "parsed" ELSE "failed"
  /\ UNCHANGED <<call, result, variableMap, prior, running>>

\* the caller passes an AST of its own making instead of a parsed one
Build(a) ==
  /\ pc = "idle"
  /\ input' = [type |-> "ast"]
  /\ ast' = Ok(a, 0)
  /\ pc' = "parsed"
  /\ UNCHANGED <<call, result, variableMap, prior, running>>

IsDomain == pc = "parsed" /\ running = <<>> /\ ast.node.type = "domain"

IsDocument == pc = "parsed" /\ ast.node.type = "document"

\* the call does not throw before it generates
Generates(size, options) ==
  ~(limitEnabled(maxExpansionOf(options)) /\ exceeds(size, maxExpansionOf(options)))

\* every label of the expression stays within what the model materialises
LabelsWithin(a, vm) ==
  \A i \in 1..Len(a.labels) : ~NGt(labelExpansionSize(a.labels[i], vm), Num(MaxOut))

WholeWithin(a, vm) == ~NGt(expansionSize(a, vm), Num(MaxOut))

CallExpansionSize ==
  /\ IsDomain
  /\ call' = [op |-> "expansionSize"]
  /\ result' = [type |-> "size", total |-> expansionSize(ast.node, variableMap)]
  /\ pc' = "called"
  /\ UNCHANGED <<input, ast, variableMap, prior, running>>

CallExpand(options) ==
  /\ IsDomain
  /\ Generates(expansionSize(ast.node, variableMap), options)
       => WholeWithin(ast.node, variableMap)
  /\ call' = [op |-> "expand", options |-> options]
  /\ result' = expand(ast.node, options, variableMap)
  /\ prior' = IF prior = None
              THEN [call |-> call', result |-> result', bindings |-> variableMap]
              ELSE prior
  /\ pc' = "called"
  /\ UNCHANGED <<input, ast, variableMap, running>>

CallPreview(limit, options) ==
  /\ IsDomain
  /\ Generates(expansionSize(ast.node, variableMap), options)
       => LabelsWithin(ast.node, variableMap)
  /\ call' = [op |-> "preview", limit |-> limit, options |-> options]
  /\ result' = preview(ast.node, limit, options, variableMap)
  /\ pc' = "called"
  /\ UNCHANGED <<input, ast, variableMap, prior, running>>

DocWithin(doc) ==
  \A i \in 1..Len(doc.expressions) :
    WholeWithin(doc.expressions[i], setVariables(doc.variables))

CallDocumentExpansionSize ==
  /\ IsDocument
  /\ call' = [op |-> "documentExpansionSize"]
  /\ result' = [type |-> "size", total |-> documentExpansionSize(ast.node)]
  /\ variableMap' = clearVariables
  /\ pc' = "called"
  /\ UNCHANGED <<input, ast, prior, running>>

CallExpandDocument(options) ==
  /\ IsDocument
  /\ DocWithin(ast.node)
  /\ call' = [op |-> "expandDocument", options |-> options]
  /\ result' = expandDocument(ast.node, options)
  /\ variableMap' = clearVariables
  /\ pc' = "called"
  /\ UNCHANGED <<input, ast, prior, running>>

CallPreviewDocument(limit, options) ==
  /\ IsDocument
  /\ DocWithin(ast.node)
  /\ call' = [op |-> "previewDocument", limit |-> limit, options |-> options]
  /\ result' = previewDocument(ast.node, limit, options)
  /\ variableMap' = clearVariables
  /\ pc' = "called"
  /\ UNCHANGED <<input, ast, prior, running>>

Next ==
  \/ \E text \in Inputs : Parse(text)
  \/ \E lines \in Documents : ParseDocument(lines)
  \/ \E a \in HandBuilt : Build(a)
  \/ CallExpansionSize
  \/ \E options \in Options : CallExpand(options)
  \/ \E limit \in Limits, options \in Options : CallPreview(limit, options)
  \/ CallDocumentExpansionSize
  \/ \E options \in Options : CallExpandDocument(options)
  \/ \E limit \in Limits, options \in Options : CallPreviewDocument(limit, options)

Spec == Init /\ [][Next]_vars

----------------------------------------------------------------------------
(* A session: one module instance serves a series of calls.  The caller    *)
(* calls setVariables and clearVariables, calls the expression functions   *)
(* again on the same AST, and runs document operations.  A document        *)
(* operation is a frame that advances by the steps install, check, expand  *)
(* and clear; the functions are synchronous, so a second operation runs    *)
(* only nested inside the first (entered from an accessor of the document  *)
(* the first one reads) and the first resumes when the second has          *)
(* returned: running is the stack of frames, and only its top advances.    *)

VarDef(name, elements) == [type |-> "vardef", name |-> name, elements |-> elements]

DocumentOf(variables, expressions) ==
  [type |-> "document", variables |-> variables, expressions |-> expressions]

\* the variable lists of the session: @t = com and @t = {x,y}
SessionVariables ==
  { <<VarDef(<<"t">>, <<LiteralElement(<<"c","o","m">>)>>)>>,
    <<VarDef(<<"t">>,
             << [primary |-> [type |-> "alternation",
                              options |-> << <<LiteralElement(<<"x">>)>>,
                                             <<LiteralElement(<<"y">>)>> >>],
                 optional |-> FALSE] >>)>> }

\* the documents of the session: a.@t and b, with either list of variables
SessionDocuments ==
  {DocumentOf(v, << DomainOf(<< <<LiteralElement(<<"a">>)>>,
                                     <<VarRefElement(<<"t">>, FALSE)>> >>),
                         DomainOf(<< <<LiteralElement(<<"b">>)>> >>) >>) :
          v \in SessionVariables}

\* the expressions of the session
SessionTexts ==
  { <<"{","c","a","r",",","b","i","k","e","}",".","c","o","m">>,
    <<"[","a","b","]","{","1",",","2","}">>,
    <<"@","t",".","c","o","m">> }

SessionOptions == {[maxExpansion |-> m] : m \in {undefined, Num(2)}}

DocumentOperations == {"documentExpansionSize", "expandDocument", "previewDocument"}

SetVariables(variables) ==
  /\ pc = "parsed"
  /\ running = <<>>
  /\ variableMap' = setVariables(variables)
  /\ UNCHANGED <<pc, input, ast, call, result, prior, running>>

ClearVariables ==
  /\ pc = "parsed"
  /\ running = <<>>
  /\ variableMap' = clearVariables
  /\ UNCHANGED <<pc, input, ast, call, result, prior, running>>

\* the caller has its result and goes on to its next call
Again ==
  /\ pc = "called"
  /\ pc' = "parsed"
  /\ call' = None
  /\ result' = None
  /\ UNCHANGED <<input, ast, variableMap, prior, running>>

Top == running[Len(running)]

\* a document function is entered: by the caller, or, on another document
\* and without options, from an accessor read by the operation that runs,
\* once that one has installed its bindings
BeginDocumentOperation(op, doc, limit, options) ==
  /\ pc = "parsed"
  /\ Len(running) < MaxDepth
  /\ running # <<>> =>
       /\ Top.at \in {"check", "expand"}
       /\ doc # Top.doc
       /\ options.maxExpansion = undefined
  /\ running' = Append(running,
                  [op |-> op, doc |-> doc, limit |-> limit, options |-> options,
                   at |-> "install", i |-> 1, remaining |-> limit,
                   allDomains |-> <<>>, total |-> undefined, out |-> None])
  /\ UNCHANGED <<pc, input, ast, call, result, variableMap, prior>>

\* setVariables(doc.variables)
InstallBindings ==
  /\ running # <<>>
  /\ Top.at = "install"
  /\ variableMap' = setVariables(Top.doc.variables)
  /\ running' = [running EXCEPT ![Len(running)] = [Top EXCEPT !.at = "check"]]
  /\ UNCHANGED <<pc, input, ast, call, result, prior>>

\* a test against maxExpansion made after the first expression is expanded
checkedAfterFirst(frame, vm) ==
  Let(calcDocumentSize(frame.doc, vm),
      LAMBDA size :
        IF frame.op = "documentExpansionSize"
        THEN [frame EXCEPT !.out = [type |-> "size", total |-> size], !.at = "clear"]
        ELSE IF limitEnabled(maxExpansionOf(frame.options))
                /\ exceeds(size, maxExpansionOf(frame.options))
        THEN [frame EXCEPT !.out = ExpansionError, !.at = "clear", !.i = 2,
                           !.allDomains = expand(frame.doc.expressions[1], disabled, vm).domains]
        ELSE [frame EXCEPT !.total = size, !.at = "expand"])

\* the frame after calcDocumentSize and the test against maxExpansion
checked(frame, vm) ==
  Let(calcDocumentSize(frame.doc, vm),
      LAMBDA size :
        IF frame.op = "documentExpansionSize"
        THEN [frame EXCEPT !.out = [type |-> "size", total |-> size], !.at = "clear"]
        ELSE IF limitEnabled(maxExpansionOf(frame.options))
                /\ exceeds(size, maxExpansionOf(frame.options))
        THEN [frame EXCEPT !.out = ExpansionError, !.at = "clear"]
        ELSE [frame EXCEPT !.total = size, !.at = "expand"])

SizeCheck ==
  /\ running # <<>>
  /\ Top.at = "check"
  /\ running' = [running EXCEPT ![Len(running)] = checked(Top, variableMap)]
  /\ UNCHANGED <<pc, input, ast, call, result, variableMap, prior>>

\* one round of the loop over doc.expressions, or the return after it
expanded(frame, vm) ==
  IF frame.op = "expandDocument"
  THEN IF frame.i > Len(frame.doc.expressions)
       THEN [frame EXCEPT !.out = [type |-> "domains", domains |-> frame.allDomains],
                          !.at = "clear"]
       ELSE [frame EXCEPT
               !.allDomains = addAll(frame.allDomains,
                                expand(frame.doc.expressions[frame.i], disabled, vm).domains),
               !.i = frame.i + 1]
  ELSE IF frame.i > Len(frame.doc.expressions) \/ frame.remaining <= 0
       THEN [frame EXCEPT
               !.out = [type |-> "preview",
                        domains |-> sliceTo(Dedup(frame.allDomains), frame.limit),
                        total |-> frame.total,
                        truncated |-> NGt(frame.total, Num(frame.limit))],
               !.at = "clear"]
       ELSE Let(preview(frame.doc.expressions[frame.i], frame.remaining, disabled, vm),
                LAMBDA r :
                  [frame EXCEPT !.allDomains = frame.allDomains \o r.domains,
                                !.remaining = frame.remaining - Len(r.domains),
                                !.i = frame.i + 1])

ExpandExpression ==
  /\ running # <<>>
  /\ Top.at = "expand"
  /\ running' = [running EXCEPT ![Len(running)] = expanded(Top, variableMap)]
  /\ UNCHANGED <<pc, input, ast, call, result, variableMap, prior>>

\* the finally block: clearVariables(), then the function returns; the
\* caller keeps the result, an accessor drops it
ClearBindings ==
  /\ running # <<>>
  /\ Top.at = "clear"
  /\ variableMap' = clearVariables
  /\ running' = SubSeq(running, 1, Len(running) - 1)
  /\ IF Len(running) = 1
     THEN /\ call' = [op |-> Top.op, doc |-> Top.doc, limit |-> Top.limit,
                      options |-> Top.options]
          /\ result' = Top.out
          /\ pc' = "called"
     ELSE UNCHANGED <<pc, call, result>>
  /\ UNCHANGED <<input, ast, prior>>

SessionNext ==
  \/ \E text \in SessionTexts : Parse(text)
  \/ \E a \in HandBuilt : Build(a)
  \/ \E variables \in SessionVariables : SetVariables(variables)
  \/ ClearVariables
  \/ CallExpansionSize
  \/ \E options \in SessionOptions : CallExpand(options)
  \/ \E limit \in {0, MaxLimit}, options \in SessionOptions : CallPreview(limit, options)
  \/ Again
  \/ \E op \in DocumentOperations, doc \in SessionDocuments, options \in SessionOptions :
       BeginDocumentOperation(op, doc, MaxLimit, options)
  \/ InstallBindings
  \/ SizeCheck
  \/ ExpandExpression
  \/ ClearBindings

SpecSession == Init /\ [][SessionNext]_vars

----------------------------------------------------------------------------
(* Documents whose lines define variables and refer to them next to '?',   *)
(* next to a class, and under names with characters outside letters,       *)
(* digits and hyphens; one expression expands to a single domain and one   *)
(* to none.                                                                *)

ReferenceLines ==
  { <<"@","b","=","{","x",",","y","}","z">>,
    <<"c","@","b","?">>,
    <<"a",".","@","b">>,
    <<"@","n","=","{","2",",","3","}">>,
    <<"[","a","b","]","@","n">>,
    <<"@","a",".","b","=","z">>,
    <<"@","x"," ","y"," ","=","z">>,
    <<"b",".","x">>,
    <<"[","^","a","-","z","0","-","9","]",".","b">> }

ReferencesNext ==
  \/ \E lines \in UNION {[1..n -> ReferenceLines] : n \in 0..MaxLines} : ParseDocument(lines)
  \/ CallDocumentExpansionSize
  \/ \E options \in Options : CallExpandDocument(options)
  \/ \E limit \in Limits : CallPreviewDocument(limit, [maxExpansion |-> undefined])

SpecReferences == Init /\ [][ReferencesNext]_vars

----------------------------------------------------------------------------
(* Properties.  Each is read in the state a call or a parse has left.      *)

\* the operation op has been called on the parsed input
Called(op) == pc = "called" /\ call.op = op

\* expansionSize of the parsed expression
SizeOfAst == expansionSize(ast.node, variableMap)

\* the maxExpansion the call runs with: 1,000,000 when the caller gave none
GivenMax ==
  IF call.options.maxExpansion.k = "undefined" THEN Num(1000000)
  ELSE call.options.maxExpansion

\* the limit is one that is checked: finite and greater than 0
Checked(m) == m.k = "fin" /\ NGt(m, Num(0))

NoDuplicates(list) == \A i, j \in 1..Len(list) : list[i] = list[j] => i = j

\* C1: expand throws ExpansionError if and only if maxExpansion (1,000,000 by
\* default) is finite, greater than 0 and less than expansionSize(ast); a
\* size equal to the limit is accepted, and 0 or Infinity disables the check.
C1_ExpandLimit ==
  Called("expand") =>
    /\ result.type \in {"domains", "ExpansionError"}
    /\ (result = ExpansionError) <=> (Checked(GivenMax) /\ NGt(SizeOfAst, GivenMax))

\* an expansion of exactly maxExpansion domains is returned
C1_Witness ==
  /\ Called("expand")
  /\ call.options.maxExpansion = Num(2)
  /\ SizeOfAst = Num(2)
  /\ result.type = "domains"
  /\ Len(result.domains) = 2

\* C2: for every AST parse returns, expansionSize(ast) is at least the number
\* of strings expand(ast) returns with the limit disabled.
C2_SizeBoundsExpand ==
  (Called("expand") /\ ~Checked(GivenMax)) =>
    /\ result.type = "domains"
    /\ NGe(SizeOfAst, Num(Len(result.domains)))

\* overlapping branches: the size counts more than expand returns
C2_Witness ==
  /\ Called("expand")
  /\ ~Checked(GivenMax)
  /\ Len(result.domains) >= 2
  /\ NGt(SizeOfAst, Num(Len(result.domains)))

\* C3 as the specification states it: preview(ast, limit), called without
\* options, returns {domains, total, truncated} and never throws
\* ExpansionError, however large expansionSize(ast) is.
C3_PreviewNeverThrows ==
  (Called("preview") /\ call.options.maxExpansion.k = "undefined") =>
    result.type = "preview"

\* C3, amended: preview throws ExpansionError if and only if maxExpansion
\* (1,000,000 by default) is finite, greater than 0 and less than
\* expansionSize(ast); otherwise it returns {domains, total, truncated} with
\* total = expansionSize(ast) and truncated = (total > limit).
C3_PreviewLimit ==
  Called("preview") =>
    /\ result.type \in {"preview", "ExpansionError"}
    /\ (result = ExpansionError) <=> (Checked(GivenMax) /\ NGt(SizeOfAst, GivenMax))
    /\ result.type = "preview" =>
         /\ result.total = SizeOfAst
         /\ result.truncated = NGt(SizeOfAst, Num(call.limit))

\* preview without options throws on an expression of more than 1,000,000
C3_Witness ==
  /\ Called("preview")
  /\ call.options.maxExpansion.k = "undefined"
  /\ NGt(SizeOfAst, Num(1000000))
  /\ result = ExpansionError

\* C4: if expansionSize(ast) <= limit, the domains of preview(ast, limit),
\* taken as a set, are those of expand(ast), and truncated is false.
C4_PreviewAgreesWithExpand ==
  (Called("preview") /\ result.type = "preview" /\ NGe(Num(call.limit), SizeOfAst)) =>
    /\ Range(result.domains) =
         Range(expand(ast.node, call.options, variableMap).domains)
    /\ result.truncated = FALSE

\* a preview whose limit is exactly the size, with every domain returned
C4_Witness ==
  /\ Called("preview")
  /\ result.type = "preview"
  /\ call.limit >= 2
  /\ SizeOfAst = Num(call.limit)
  /\ Len(result.domains) = call.limit

\* C5: preview(ast, limit) and previewDocument(doc, limit) never return more
\* than limit domains, for every integer limit >= 0, 0 included.
C5_PreviewWithinLimit ==
  (pc = "called" /\ call.op \in {"preview", "previewDocument"}
     /\ result.type = "preview") =>
    Len(result.domains) <= call.limit

\* preview with limit 0 returns a domain
C5_Witness ==
  /\ Called("preview")
  /\ call.limit = 0
  /\ result.type = "preview"
  /\ Len(result.domains) = 1

\* the characters of an output domain
DomainChars == Range(LowerLetters) \cup Range(DigitChars) \cup {"-", "."}

\* the labels of a string: the pieces between its dots, cur the piece begun
RECURSIVE SplitDots(_, _)
SplitDots(s, cur) ==
  IF s = <<>> THEN <<cur>>
  ELSE IF Head(s) = "." THEN <<cur>> \o SplitDots(Tail(s), <<>>)
  ELSE SplitDots(Tail(s), Append(cur, Head(s)))

\* C6: every string expand(parse(e)) returns is lowercase, made only of a-z,
\* 0-9, '-' and '.', has as many dot-separated labels as the AST has labels,
\* and has no empty label.
C6_OutputNormalised ==
  (Called("expand") /\ result.type = "domains") =>
    \A i \in 1..Len(result.domains) :
      /\ Range(result.domains[i]) \subseteq DomainChars
      /\ Len(SplitDots(result.domains[i], <<>>)) = Len(ast.node.labels)
      /\ \A k \in 1..Len(SplitDots(result.domains[i], <<>>)) :
           SplitDots(result.domains[i], <<>>)[k] # <<>>

\* an input with a capital letter and several labels, expanded
C6_Witness ==
  /\ Called("expand")
  /\ result.type = "domains"
  /\ "B" \in Range(input.text)
  /\ Len(ast.node.labels) >= 2
  /\ Len(result.domains) >= 2

\* the input read as one label: its elements when it is well-formed
InputLabel == parseSequenceString(input.text, EmptyMap)

\* the input is one well-formed label, small enough to expand
WellFormedLabel ==
  /\ InputLabel.ok
  /\ Len(InputLabel.node) > 0
  /\ ~NGt(sequenceExpansionSize(InputLabel.node, EmptyMap), Num(MaxOut))

\* the expansion of the label holds the empty string
ExpandsToEmpty(elements) == <<>> \in Range(expandSequence(elements, EmptyMap))

\* C7: parse rejects a well-formed label with ParseError if and only if the
\* label's expansion contains the empty string, canProduceEmpty agrees with
\* the expander on the label, and no label of a parsed AST expands to the
\* empty string.
C7_LabelValidity ==
  /\ (pc \in {"parsed", "failed"} /\ input.type = "expression" /\ WellFormedLabel) =>
       /\ (~ast.ok /\ ast.type = "ParseError") <=> ExpandsToEmpty(InputLabel.node)
       /\ ast.ok <=> ~ExpandsToEmpty(InputLabel.node)
       /\ canProduceEmpty(InputLabel.node) <=> ExpandsToEmpty(InputLabel.node)
  /\ (pc = "parsed" /\ input.type = "expression") =>
       \A i \in 1..Len(ast.node.labels) :
         ~NGt(labelExpansionSize(ast.node.labels[i], EmptyMap), Num(MaxOut)) =>
           ~ExpandsToEmpty(ast.node.labels[i].elements)

\* a label rejected only because the body of its group can be empty
C7_Witness ==
  /\ pc = "failed"
  /\ input.type = "expression"
  /\ WellFormedLabel
  /\ \E i \in 1..Len(InputLabel.node) :
       /\ ~InputLabel.node[i].optional
       /\ InputLabel.node[i].primary.type = "group"
       /\ InputLabel.node[i].primary.repetitionMin > 0
  /\ ExpandsToEmpty(InputLabel.node)
  /\ ast.message = "Label must produce at least one character"

\* C8: the lists expand, expandDocument, preview and previewDocument return
\* never hold the same string twice.
C8_NoDuplicates ==
  (pc = "called" /\ result.type \in {"domains", "preview"}) =>
    NoDuplicates(result.domains)

\* expand(expr) for each expression of the document, one list after another
PerExpression(doc) ==
  Flatten([i \in 1..Len(doc.expressions) |->
             expand(doc.expressions[i], disabled, EmptyMap).domains])

\* two expressions of a document produce a common domain, returned once
C8_Witness ==
  /\ Called("expandDocument")
  /\ result.type = "domains"
  /\ Len(ast.node.variables) = 0
  /\ Len(ast.node.expressions) = 2
  /\ Len(result.domains) >= 2
  /\ Len(result.domains) < Len(PerExpression(ast.node))

\* the place where x first occurs in list
FirstAt(list, x) ==
  CHOOSE i \in 1..Len(list) : list[i] = x /\ \A j \in 1..(i - 1) : list[j] # x

\* C9: expandDocument(doc) returns exactly the union of expand(expr) over
\* doc.expressions, each domain once, in the order of first occurrence;
\* variable definitions contribute no output of their own.
C9_DocumentUnion ==
  (Called("expandDocument") /\ result.type = "domains") =>
    /\ Range(result.domains) = Range(PerExpression(ast.node))
    /\ NoDuplicates(result.domains)
    /\ \A p, q \in 1..Len(result.domains) :
         p < q => FirstAt(PerExpression(ast.node), result.domains[p])
                    < FirstAt(PerExpression(ast.node), result.domains[q])

\* a document with a variable and two expressions that overlap
C9_Witness ==
  /\ Called("expandDocument")
  /\ result.type = "domains"
  /\ Len(ast.node.variables) >= 1
  /\ Len(ast.node.expressions) >= 2
  /\ Len(result.domains) >= 3
  /\ Len(result.domains) < Len(PerExpression(ast.node))

\* the line defines a variable: it starts with '@' and holds an '='
IsDefinition(line) == Len(line) > 0 /\ line[1] = "@" /\ "=" \in Range(line)

\* the place of the first '=' of a definition
EqualsAt(line) == CHOOSE i \in 1..Len(line) : line[i] = "=" /\ \A j \in 1..(i - 1) : line[j] # "="

\* the name a definition gives: what stands between '@' and '=', trimmed,
\* in lowercase
DefinedName(line) == toLowerCase(trim(SubSeq(line, 2, EqualsAt(line) - 1)))

\* the text in which a line refers to variables: a definition's value, or
\* the whole expression
ReferringText(line) ==
  IF IsDefinition(line) THEN SubSeq(line, EqualsAt(line) + 1, Len(line)) ELSE line

\* the name that starts at from: the longest run of name characters
NameFrom(text, from) ==
  SubSeq(text, from,
         CHOOSE e \in (from - 1)..Len(text) :
           /\ \A k \in from..e : isVarNameChar(text[k])
           /\ e = Len(text) \/ ~isVarNameChar(text[e + 1]))

\* the names a text refers to, one for each '@'
ReferredNames(text) ==
  {NameFrom(text, p + 1) : p \in {q \in 1..Len(text) : text[q] = "@"}}

\* the names defined on the lines before line i
DefinedBefore(lines, i) ==
  {DefinedName(lines[j]) : j \in {k \in 1..(i - 1) : IsDefinition(lines[k])}}

\* no name is defined twice and every reference names a variable defined on
\* an earlier line
WellScoped(lines) ==
  \A i \in 1..Len(lines) :
    /\ IsDefinition(lines[i]) => DefinedName(lines[i]) \notin DefinedBefore(lines, i)
    /\ ReferredNames(ReferringText(lines[i])) \subseteq DefinedBefore(lines, i)

\* C10: parseDocument returns a Document only if no variable name is defined
\* twice and every @reference names a variable defined on an earlier line; a
\* redefinition, an undefined name, a forward reference or a self or mutual
\* reference raises ParseError.
C10_DocumentScoping ==
  (pc \in {"parsed", "failed"} /\ input.type = "document") =>
    /\ ast.ok => WellScoped(input.lines)
    /\ ~WellScoped(input.lines) => (~ast.ok /\ ast.type = "ParseError")

\* a variable is used on a line before the one that defines it
C10_Witness ==
  /\ pc = "failed"
  /\ input.type = "document"
  /\ \E i \in 1..Len(input.lines) :
       \E n \in ReferredNames(ReferringText(input.lines[i])) :
         /\ n \notin DefinedBefore(input.lines, i)
         /\ n \in DefinedBefore(input.lines, Len(input.lines) + 1)
  /\ ast.type = "ParseError"
  /\ ast.message = "Undefined variable"

\* C11 as the specification states it: every failure of parse or
\* parseDocument is a ParseError that carries a position; no other kind of
\* error is thrown.
C11_OnlyParseErrors ==
  pc = "failed" => (ast.type = "ParseError" /\ ast.position >= 0)

\* an inverted range in a character class ends parse with a plain Error
C11_Witness ==
  /\ pc = "failed"
  /\ input.type = "expression"
  /\ ast.type = "Error"
  /\ ast.message = "Invalid range"

RECURSIVE WellFormedSequence(_)
RECURSIVE WellFormedPrimary(_)

\* a sequence (label, group body, alternation option, variable value) has an
\* element, and each of its primaries is well formed
WellFormedSequence(elements) ==
  /\ Len(elements) >= 1
  /\ \A i \in 1..Len(elements) : WellFormedPrimary(elements[i].primary)

WellFormedPrimary(p) ==
  CASE p.type = "literal" -> Len(p.value) >= 1
    [] p.type = "charclass" ->
         0 <= p.repetitionMin /\ p.repetitionMin <= p.repetitionMax
    [] p.type = "group" ->
         /\ 0 <= p.repetitionMin /\ p.repetitionMin <= p.repetitionMax
         /\ WellFormedSequence(p.elements)
    [] p.type = "alternation" ->
         /\ Len(p.options) >= 2
         /\ \A o \in 1..Len(p.options) : WellFormedSequence(p.options[o])
    [] p.type = "varref" -> TRUE

WellFormedDomain(d) ==
  /\ Len(d.labels) >= 1
  /\ \A l \in 1..Len(d.labels) : WellFormedSequence(d.labels[l].elements)

\* the primaries at the top level of the labels of a domain
TopPrimaries(d) ==
  UNION {{d.labels[l].elements[i].primary : i \in 1..Len(d.labels[l].elements)} :
           l \in 1..Len(d.labels)}

\* C12: every AST parse or parseDocument returns has a label, every label,
\* group body and alternation option has an element, every alternation has
\* two options or more, every literal is non-empty, and every repetition has
\* 0 <= repetitionMin <= repetitionMax.
C12_AstWellFormed ==
  /\ (pc = "parsed" /\ input.type = "expression") => WellFormedDomain(ast.node)
  /\ (pc = "parsed" /\ input.type = "document") =>
       /\ \A e \in 1..Len(ast.node.expressions) :
            WellFormedDomain(ast.node.expressions[e])
       /\ \A v \in 1..Len(ast.node.variables) :
            WellFormedSequence(ast.node.variables[v].elements)

\* a parsed expression with an alternation and a repeated class
C12_Witness ==
  /\ pc = "parsed"
  /\ input.type = "expression"
  /\ \E p \in TopPrimaries(ast.node) : p.type = "alternation"
  /\ \E p \in TopPrimaries(ast.node) : p.type = "charclass" /\ p.repetitionMax >= 2

RECURSIVE ClassesOfSequence(_)
RECURSIVE ClassesOfPrimary(_)

\* the character-class nodes of a sequence, at any depth
ClassesOfSequence(elements) ==
  UNION {ClassesOfPrimary(elements[i].primary) : i \in 1..Len(elements)}

ClassesOfPrimary(p) ==
  CASE p.type = "charclass" -> {p}
    [] p.type = "group" -> ClassesOfSequence(p.elements)
    [] p.type = "alternation" ->
         UNION {ClassesOfSequence(p.options[o]) : o \in 1..Len(p.options)}
    [] OTHER -> {}

ClassesOfDomain(d) ==
  UNION {ClassesOfSequence(d.labels[l].elements) : l \in 1..Len(d.labels)}

\* C13 as the specification states it: every CharClass node of an AST parse
\* returns has a non-empty character set, also when the class is negated.
C13_ClassesNonEmpty ==
  (pc = "parsed" /\ input.type = "expression") =>
    \A c \in ClassesOfDomain(ast.node) : Len(c.chars) >= 1

\* parse returns a negated class that holds no character
C13_Witness ==
  /\ pc = "parsed"
  /\ input.type = "expression"
  /\ \E c \in ClassesOfDomain(ast.node) : c.negated /\ Len(c.chars) = 0

\* the standalone named classes the inputs hold, each with its bracketed form
StandaloneForms ==
  { [standalone |-> <<"[",":","v",":","]">>,
     bracketed  |-> <<"[","[",":","v",":","]","]">>],
    [standalone |-> <<"[",":","c",":","]","{","2","}">>,
     bracketed  |-> <<"[","[",":","c",":","]","]","{","2","}">>],
    [standalone |-> <<"[",":","v",":","]","?","b">>,
     bracketed  |-> <<"[","[",":","v",":","]","]","?","b">>] }

\* C14 as the specification states it: a named class written standalone,
\* [:v:] or [:c:], alone or with a repetition or '?', is accepted by parse and
\* yields the AST of its bracketed form, a class with repetition {1,1} unless
\* one is written, so that both expand to the same set.
C14_StandaloneNamedClass ==
  \A f \in StandaloneForms :
    (pc \in {"parsed", "failed"} /\ input.type = "expression"
       /\ input.text = f.standalone) =>
      /\ ast.ok
      /\ ast.node = parse(f.bracketed).node

\* parse was given the standalone class [:v:] and rejected it
C14_Witness ==
  /\ pc = "failed"
  /\ input.type = "expression"
  /\ input.text = <<"[",":","v",":","]">>
  /\ parse(<<"[","[",":","v",":","]","]">>).ok
  /\ ast.type = "ParseError"
  /\ ast.message = "Invalid character in character class"

\* a class and a group, the heads a '{' may follow
Heads == { <<"[","a","b","]">>, <<"(","a",")">> }

\* a non-empty run of digits
AllDigits(s) == Len(s) >= 1 /\ \A i \in 1..Len(s) : s[i] \in Range(DigitChars)

\* the number a run of digits writes
RECURSIVE DigitsValue(_)
DigitsValue(s) ==
  IF s = <<>> THEN 0
  ELSE 10 * DigitsValue(SubSeq(s, 1, Len(s) - 1)) + (IndexIn(DigitChars, s[Len(s)]) - 1)

\* the places e of text where a '}' closes the form {digits} or
\* {digits,digits} opened by the '{' at place from
RepetitionEnds(text, from) ==
  {e \in (from + 1)..Len(text) :
     /\ text[from] = "{"
     /\ text[e] = "}"
     /\ \/ AllDigits(SubSeq(text, from + 1, e - 1))
        \/ \E c \in (from + 1)..(e - 1) :
             /\ text[c] = ","
             /\ AllDigits(SubSeq(text, from + 1, c - 1))
             /\ AllDigits(SubSeq(text, c + 1, e - 1))}

\* the counts {min, max} that the form ending at e writes
WrittenCounts(text, from, e) ==
  IF \E c \in (from + 1)..(e - 1) : text[c] = ","
  THEN LET c == CHOOSE k \in (from + 1)..(e - 1) : text[k] = ","
       IN  <<DigitsValue(SubSeq(text, from + 1, c - 1)),
             DigitsValue(SubSeq(text, c + 1, e - 1))>>
  ELSE <<DigitsValue(SubSeq(text, from + 1, e - 1)),
         DigitsValue(SubSeq(text, from + 1, e - 1))>>

\* the input is a class or a group with a '{' right after it
HeadThenBrace(h) ==
  /\ pc \in {"parsed", "failed"}
  /\ input.type = "expression"
  /\ Len(input.text) > Len(h)
  /\ SubSeq(input.text, 1, Len(h)) = h
  /\ input.text[Len(h) + 1] = "{"

\* the first primary of the input as the parser reads it
FirstPrimary == parsePrimary(toLowerCase(input.text), 0, EmptyMap)

\* C15: right after a character class or a group, a '{' is read as the
\* repetition of that element if and only if the text from the '{' has the
\* form {digits} or {digits,digits}; otherwise the class or group keeps
\* {1,1} and the '{' starts an alternation, a separate element.
C15_RepetitionOrAlternation ==
  \A h \in Heads :
    HeadThenBrace(h) =>
      IF RepetitionEnds(input.text, Len(h) + 1) # {}
      THEN \A e \in RepetitionEnds(input.text, Len(h) + 1) :
             /\ FirstPrimary.ok =>
                  /\ FirstPrimary.pos = e
                  /\ <<FirstPrimary.node.repetitionMin, FirstPrimary.node.repetitionMax>>
                       = WrittenCounts(input.text, Len(h) + 1, e)
             /\ ~FirstPrimary.ok =>
                  /\ FirstPrimary.message = "Invalid repetition range"
                  /\ WrittenCounts(input.text, Len(h) + 1, e)[1]
                       > WrittenCounts(input.text, Len(h) + 1, e)[2]
                  /\ ast = FirstPrimary
             /\ ast.ok => ast.node.labels[1].elements[1].primary = FirstPrimary.node
      ELSE /\ FirstPrimary.ok
           /\ FirstPrimary.pos = Len(h)
           /\ FirstPrimary.node.repetitionMin = 1
           /\ FirstPrimary.node.repetitionMax = 1
           /\ ast.ok =>
                /\ ast.node.labels[1].elements[1].primary = FirstPrimary.node
                /\ ast.node.labels[1].elements[2].primary.type = "alternation"

\* [ab]{2}{cd,ef}: a class repeated twice, then an alternation
C15_Witness ==
  /\ HeadThenBrace(<<"[","a","b","]">>)
  /\ pc = "parsed"
  /\ Len(ast.node.labels[1].elements) = 2
  /\ ast.node.labels[1].elements[1].primary.type = "charclass"
  /\ ast.node.labels[1].elements[1].primary.repetitionMin = 2
  /\ ast.node.labels[1].elements[1].primary.repetitionMax = 2
  /\ ast.node.labels[1].elements[2].primary.type = "alternation"

\* the sum over r in [r, max] of n^r, in exact arithmetic
RECURSIVE ExactPowerSum(_, _, _)
ExactPowerSum(n, r, max) ==
  IF r > max THEN Num(0) ELSE NAdd(NPow(n, r), ExactPowerSum(n, r + 1, max))

RECURSIVE ExactSequence(_, _)
RECURSIVE ExactPrimary(_, _)

\* the sum of the sizes of the options from the i-th on
RECURSIVE ExactOptions(_, _, _)
ExactOptions(options, i, vm) ==
  IF i > Len(options) THEN Num(0)
  ELSE NAdd(ExactSequence(options[i], vm), ExactOptions(options, i + 1, vm))

\* the size the definition gives a primary, without any overflow rule
ExactPrimary(primary, vm) ==
  CASE primary.type = "literal" -> Num(1)
    [] primary.type = "alternation" -> ExactOptions(primary.options, 1, vm)
    [] primary.type = "charclass" ->
         ExactPowerSum(Num(Len(primary.chars)), primary.repetitionMin,
                       primary.repetitionMax)
    [] primary.type = "group" ->
         ExactPowerSum(ExactSequence(primary.elements, vm), primary.repetitionMin,
                       primary.repetitionMax)
    [] primary.type = "varref" ->
         IF primary.name \in DOMAIN vm THEN ExactSequence(vm[primary.name], vm)
         ELSE Num(0)

ExactElement(element, vm) ==
  IF element.optional THEN NAdd(ExactPrimary(element.primary, vm), Num(1))
  ELSE ExactPrimary(element.primary, vm)

\* the product of the sizes of the first k elements
RECURSIVE ExactProduct(_, _, _)
ExactProduct(elements, k, vm) ==
  IF k = 0 THEN Num(1)
  ELSE NMul(ExactProduct(elements, k - 1, vm), ExactElement(elements[k], vm))

ExactSequence(elements, vm) == ExactProduct(elements, Len(elements), vm)

\* the product of the sizes of the first k labels
RECURSIVE ExactLabels(_, _, _)
ExactLabels(labels, k, vm) ==
  IF k = 0 THEN Num(1)
  ELSE NMul(ExactLabels(labels, k - 1, vm), ExactSequence(labels[k].elements, vm))

ExactSize(a, vm) == ExactLabels(a.labels, Len(a.labels), vm)

Unsafe(n) == NGt(n, MAX_SAFE_INTEGER)

RECURSIVE SequenceExceeds(_, _, _)

\* some product or sum formed for the primary, at any depth, is above
\* MAX_SAFE_INTEGER; with unrepeated set, the body of a group repeated at most
\* 0 times is left out
RECURSIVE PrimaryExceeds(_, _, _)
PrimaryExceeds(primary, vm, unrepeated) ==
  \/ Unsafe(ExactPrimary(primary, vm))
  \/ /\ primary.type = "alternation"
     /\ \E i \in 1..Len(primary.options) : SequenceExceeds(primary.options[i], vm, unrepeated)
  \/ /\ primary.type = "group"
     /\ unrepeated \/ primary.repetitionMax >= 1
     /\ SequenceExceeds(primary.elements, vm, unrepeated)
  \/ /\ primary.type = "varref"
     /\ primary.name \in DOMAIN vm
     /\ SequenceExceeds(vm[primary.name], vm, unrepeated)

SequenceExceeds(elements, vm, unrepeated) ==
  \E k \in 1..Len(elements) :
    \/ Unsafe(ExactProduct(elements, k, vm))
    \/ Unsafe(ExactElement(elements[k], vm))
    \/ PrimaryExceeds(elements[k].primary, vm, unrepeated)

DomainExceeds(a, vm, unrepeated) ==
  \E k \in 1..Len(a.labels) :
    \/ Unsafe(ExactLabels(a.labels, k, vm))
    \/ SequenceExceeds(a.labels[k].elements, vm, unrepeated)

\* the result is the exact size or Infinity, and Infinity exactly when exceeded
SizeContract(exceeded) ==
  /\ result.total.k \in {"fin", "inf"}
  /\ result.total.k = "fin" =>
       /\ result.total = ExactSize(ast.node, variableMap)
       /\ ~Unsafe(result.total)
  /\ result.total.k = "inf" <=> exceeded

\* C16 as stated: expansionSize returns the compositionally defined value
\* whenever it returns a finite number, returns Infinity as soon as any
\* intermediate product or sum exceeds Number.MAX_SAFE_INTEGER, and never
\* returns NaN or a finite value above MAX_SAFE_INTEGER.
C16_SizeOrInfinity ==
  Called("expansionSize") => SizeContract(DomainExceeds(ast.node, variableMap, TRUE))

\* C16, amended: the same, except that the body of a group repeated {0} is
\* not an intermediate: such a group counts 1 even if its body overflows.
C16_SizeOrInfinityRepeated ==
  Called("expansionSize") => SizeContract(DomainExceeds(ast.node, variableMap, FALSE))

\* a class of size 0 is followed by one whose size overflows: the product
\* 0 * Infinity is NaN, and Infinity is returned
C16_Witness ==
  /\ Called("expansionSize")
  /\ input.type = "expression"
  /\ Len(ast.node.labels) = 1
  /\ Len(ast.node.labels[1].elements) = 2
  /\ ExactElement(ast.node.labels[1].elements[1], variableMap) = Num(0)
  /\ Unsafe(ExactElement(ast.node.labels[1].elements[2], variableMap))
  /\ ExactSize(ast.node, variableMap) = Num(0)
  /\ result.total = Infinity

RECURSIVE NoChoiceSequence(_)

\* no alternation and no optional element at any depth
RECURSIVE NoChoicePrimary(_)
NoChoicePrimary(primary) ==
  /\ primary.type # "alternation"
  /\ primary.type = "group" => NoChoiceSequence(primary.elements)

NoChoiceSequence(elements) ==
  \A k \in 1..Len(elements) :
    ~elements[k].optional /\ NoChoicePrimary(elements[k].primary)

NoChoice(a) == \A i \in 1..Len(a.labels) : NoChoiceSequence(a.labels[i].elements)

RECURSIVE FixedSequence(_)

\* every repetition at any depth has min = max
RECURSIVE FixedPrimary(_)
FixedPrimary(primary) ==
  /\ primary.type \in {"charclass", "group"} =>
       primary.repetitionMin = primary.repetitionMax
  /\ primary.type = "group" => FixedSequence(primary.elements)
  /\ primary.type = "alternation" =>
       \A i \in 1..Len(primary.options) : FixedSequence(primary.options[i])

FixedSequence(elements) == \A k \in 1..Len(elements) : FixedPrimary(elements[k].primary)

FixedRepetitions(a) == \A i \in 1..Len(a.labels) : FixedSequence(a.labels[i].elements)

\* expand has returned the strings of a parsed expression
Expanded == Called("expand") /\ input.type = "expression" /\ result.type = "domains"

\* C17 as stated: for every valid expression that contains no alternation and
\* no optional element, expansionSize(parse(e)) equals the number of strings
\* in expand(parse(e)).
C17_SizeIsCount ==
  (Expanded /\ NoChoice(ast.node)) => Num(Len(result.domains)) = SizeOfAst

\* C17, amended: for every valid expression that contains no alternation, no
\* optional element and no repetition with min < max, expansionSize(parse(e))
\* equals the number of strings in expand(parse(e)).
C17_SizeIsCountFixed ==
  (Expanded /\ NoChoice(ast.node) /\ FixedRepetitions(ast.node)) =>
    Num(Len(result.domains)) = SizeOfAst

\* a class repeated exactly twice is expanded to as many strings as its size
C17_Witness ==
  /\ Expanded
  /\ NoChoice(ast.node)
  /\ FixedRepetitions(ast.node)
  /\ \E p \in TopPrimaries(ast.node) :
       p.type = "charclass" /\ p.repetitionMin = 2 /\ Len(p.chars) >= 2
  /\ NGe(SizeOfAst, Num(4))
  /\ Num(Len(result.domains)) = SizeOfAst

\* the calls that take the AST of an expression
ExpressionCalls == {"expansionSize", "expand", "preview"}

\* what the call returns in a module instance in which no call has been made
FreshResult ==
  CASE call.op = "expansionSize" ->
         [type |-> "size", total |-> expansionSize(ast.node, EmptyMap)]
    [] call.op = "expand" -> expand(ast.node, call.options, EmptyMap)
    [] call.op = "preview" -> preview(ast.node, call.limit, call.options, EmptyMap)

\* C18: variable bindings do not persist across calls: after any earlier call
\* has installed bindings, a later expand, preview or expansionSize call on
\* an AST, one with a VarRef included, returns what it returns when no
\* earlier call has been made.
C18_NoSharedBindings ==
  (pc = "called" /\ call.op \in ExpressionCalls) => result = FreshResult

\* after setVariables, expand of an AST with @t returns domains made from
\* the binding, where a fresh module returns none
C18_Witness ==
  /\ Called("expand")
  /\ input.type = "ast"
  /\ variableMap # EmptyMap
  /\ result.type = "domains"
  /\ result.domains # <<>>
  /\ FreshResult.domains = <<>>

\* the operation of the frame is between its install and its clear
Installed(frame) == frame.at \in {"check", "expand", "clear"}

\* what the document operation returns when it runs alone
RunAlone ==
  CASE call.op = "documentExpansionSize" ->
         [type |-> "size", total |-> documentExpansionSize(call.doc)]
    [] call.op = "expandDocument" -> expandDocument(call.doc, call.options)
    [] call.op = "previewDocument" -> previewDocument(call.doc, call.limit, call.options)

\* C19: when two document operations on different documents are interleaved
\* at the granularity of their steps, neither observes nor overwrites the
\* bindings of the other: between its install and its clear, the bindings in
\* force are the ones of its own document.
C19_BindingsIsolated ==
  \A d \in 1..Len(running) :
    Installed(running[d]) => variableMap = setVariables(running[d].doc.variables)

\* an expandDocument inside which another operation ran returns something
\* else than it returns alone
C19_Witness ==
  /\ pc = "called"
  /\ call.op = "expandDocument"
  /\ result.type = "domains"
  /\ RunAlone.type = "domains"
  /\ result # RunAlone

\* C20: two calls of expand(parse(e)) on the same valid expression, with the
\* same options, return the same set of strings (or both throw), whatever
\* calls of setVariables, clearVariables, expandDocument, previewDocument and
\* documentExpansionSize are made between them.
C20_ExpandDeterministic ==
  (Called("expand") /\ input.type = "expression" /\ prior # None /\ prior.call = call) =>
    /\ result.type = prior.result.type
    /\ result.type = "domains" =>
         Range(result.domains) = Range(prior.result.domains)

\* the first expand ran without bindings, this one runs with bindings that
\* a call in between has installed, and returns the same two domains or more
C20_Witness ==
  /\ Called("expand")
  /\ input.type = "expression"
  /\ prior # None
  /\ prior.call = call
  /\ prior.bindings = EmptyMap
  /\ variableMap # EmptyMap
  /\ result.type = "domains"
  /\ Len(result.domains) >= 2
  /\ Range(result.domains) = Range(prior.result.domains)

\* the name is not empty and made of letters, digits and hyphens only
ValidName(name) == Len(name) > 0 /\ \A k \in 1..Len(name) : isVarNameChar(name[k])

\* C21: every VariableDef of a Document returned by parseDocument has a
\* non-empty name made only of letters, digits and hyphens; a definition line
\* whose name contains any other character is rejected with ParseError.
C21_VariableNames ==
  (pc \in {"parsed", "failed"} /\ input.type = "document") =>
    /\ ast.ok => \A i \in 1..Len(ast.node.variables) : ValidName(ast.node.variables[i].name)
    /\ (\E i \in 1..Len(input.lines) :
          IsDefinition(input.lines[i]) /\ ~ValidName(DefinedName(input.lines[i])))
         => (~ast.ok /\ ast.type = "ParseError")

\* a Document is returned with a variable whose name holds a '.'
C21_Witness ==
  /\ pc = "parsed"
  /\ input.type = "document"
  /\ \E i \in 1..Len(ast.node.variables) : "." \in Range(ast.node.variables[i].name)

\* the characters from a to b in the order of the alphabet or of the digits
Between(a, b) ==
  {c \in Range(UNIVERSE) : charCodeAt(a) <= charCodeAt(c) /\ charCodeAt(c) <= charCodeAt(b)}

\* the union of the items of a bracket class, read from the i-th character
\* of the text to the closing bracket: a named class, a range, or a character
RECURSIVE ListedFrom(_, _)
ListedFrom(text, i) ==
  IF i > Len(text) \/ text[i] = "]" THEN {}
  ELSE IF text[i] = "["
  THEN (IF text[i + 2] = "v" THEN Range(VOWELS) ELSE Range(CONSONANTS))
       \cup ListedFrom(text, i + 5)
  ELSE IF i + 2 <= Len(text) /\ text[i + 1] = "-" /\ text[i + 2] # "]"
  THEN Between(text[i], text[i + 2]) \cup ListedFrom(text, i + 3)
  ELSE {text[i]} \cup ListedFrom(text, i + 1)

\* the input is a parsed expression that starts with a bracket class
StartsWithClass ==
  /\ pc = "parsed"
  /\ input.type = "expression"
  /\ Len(input.text) > 0
  /\ input.text[1] = "["

NegatedText == input.text[2] = "^"

ListedInText == ListedFrom(toLowerCase(input.text), IF NegatedText THEN 3 ELSE 2)

FirstClass == ast.node.labels[1].elements[1].primary

\* C22: the character set of a negated bracket class is exactly the universe
\* a-z0-9 minus the union of all listed characters, ranges and named classes,
\* whatever their order; the set of a class that is not negated is exactly
\* that union, without duplicates.
C22_ClassContents ==
  StartsWithClass =>
    /\ FirstClass.type = "charclass"
    /\ FirstClass.negated = NegatedText
    /\ NoDuplicates(FirstClass.chars)
    /\ Range(FirstClass.chars) =
         IF NegatedText THEN Range(UNIVERSE) \ ListedInText ELSE ListedInText

\* a negated class lists a named class and a range, in either order
C22_Witness ==
  /\ StartsWithClass
  /\ NegatedText
  /\ input.text[3] = "x"
  /\ Range(VOWELS) \subseteq ListedInText
  /\ Cardinality(ListedInText) = 8
  /\ Len(FirstClass.chars) = 28
  /\ Range(FirstClass.chars) = Range(UNIVERSE) \ ListedInText

\* all concatenations s1 ... sr with each si chosen from the set S
RECURSIVE Concatenations(_, _)
Concatenations(S, r) ==
  IF r = 0 THEN {<<>>}
  ELSE UNION {{s \o t : t \in Concatenations(S, r - 1)} : s \in S}

RECURSIVE GroupsOfSequence(_)
RECURSIVE GroupsOfPrimary(_)

\* the group nodes of a sequence, at any depth
GroupsOfSequence(elements) ==
  UNION {GroupsOfPrimary(elements[i].primary) : i \in 1..Len(elements)}

GroupsOfPrimary(p) ==
  CASE p.type = "group" -> {p} \cup GroupsOfSequence(p.elements)
    [] p.type = "alternation" ->
         UNION {GroupsOfSequence(p.options[o]) : o \in 1..Len(p.options)}
    [] OTHER -> {}

\* the groups of the parsed expression whose body and whose own expansion
\* the model materialises
SmallGroups ==
  {p \in UNION {GroupsOfSequence(ast.node.labels[l].elements) :
                  l \in 1..Len(ast.node.labels)} :
     /\ ~NGt(sequenceExpansionSize(p.elements, EmptyMap), Num(MaxOut))
     /\ ~NGt(primaryExpansionSize(p, EmptyMap), Num(MaxOut))}

BodyOf(p) == Range(expandSequence(p.elements, EmptyMap))

\* C23: a group (S){m,n} expands to the union, over every r with m <= r <= n,
\* of all concatenations s1...sr with each si chosen independently from the
\* expansion of S; r = 0 contributes the empty string, and a group without
\* repetition expands exactly like its body.
C23_GroupExpansion ==
  (pc = "parsed" /\ input.type = "expression") =>
    \A p \in SmallGroups :
      /\ p.repetitionMin = 0 => <<>> \in Range(expandPrimary(p, EmptyMap))
      /\ Range(expandPrimary(p, EmptyMap)) =
           UNION {Concatenations(BodyOf(p), r) : r \in p.repetitionMin..p.repetitionMax}
      /\ (p.repetitionMin = 1 /\ p.repetitionMax = 1) =>
           expandPrimary(p, EmptyMap) = expandSequence(p.elements, EmptyMap)

\* a group whose body has several strings is repeated twice, the two
\* choices made independently
C23_Witness ==
  /\ pc = "parsed"
  /\ input.type = "expression"
  /\ \E p \in SmallGroups :
       /\ p.repetitionMin = 2
       /\ p.repetitionMax = 2
       /\ Cardinality(BodyOf(p)) >= 3
       /\ \E s, t \in BodyOf(p) : s # t /\ s \o t \in Range(expandPrimary(p, EmptyMap))

\* the budget previewDocument hands to the i-th expression: the limit minus
\* the domains the expressions before it have returned
RECURSIVE BudgetAt(_, _, _, _)
BudgetAt(expressions, i, limit, vm) ==
  IF i = 1 THEN limit
  ELSE Let(BudgetAt(expressions, i - 1, limit, vm),
           LAMBDA before :
             IF before <= 0 THEN before
             ELSE before - Len(preview(expressions[i - 1], before, disabled, vm).domains))

\* the expressions the loop of previewDocument does not reach
Unreached(doc, limit) ==
  {i \in 1..Len(doc.expressions) :
     BudgetAt(doc.expressions, i, limit, setVariables(doc.variables)) <= 0}

\* previewDocument was called without options on a parsed document whose
\* size the limit covers
PreviewedWhole ==
  /\ Called("previewDocument")
  /\ input.type = "document"
  /\ call.options.maxExpansion = undefined
  /\ ~NGt(documentExpansionSize(ast.node), Num(call.limit))

\* the preview holds the domains of expandDocument and is not truncated
PreviewIsExpansion ==
  /\ result.type = "preview"
  /\ Range(result.domains) = Range(expandDocument(ast.node, call.options).domains)
  /\ ~result.truncated

DistinctDomains == Range(expand(ast.node, disabled, variableMap).domains)

\* preview has returned for a limit of 1 or more that the expansion reaches
PreviewedBelow ==
  /\ Called("preview")
  /\ result.type = "preview"
  /\ WholeWithin(ast.node, variableMap)
  /\ call.limit >= 1
  /\ Cardinality(DistinctDomains) >= call.limit

\* C25 as stated: for every limit >= 1, whenever expand(ast) contains at
\* least limit distinct domains, preview(ast, limit).domains has exactly
\* limit entries.
C25_PreviewFillsLimit == PreviewedBelow => Len(result.domains) = call.limit

\* C25, amended: under the same condition the preview has at least one and
\* at most limit entries, and exactly limit entries when no domain is
\* produced twice (expansionSize equals the number of distinct domains).
C25_PreviewUpToLimit ==
  PreviewedBelow =>
    /\ Len(result.domains) >= 1
    /\ Len(result.domains) <= call.limit
    /\ SizeOfAst = Num(Cardinality(DistinctDomains)) => Len(result.domains) = call.limit

\* three domains or more exist and the preview of limit 3 returns 3
C25_Witness ==
  /\ PreviewedBelow
  /\ call.limit = 3
  /\ Cardinality(DistinctDomains) > 3
  /\ SizeOfAst = Num(Cardinality(DistinctDomains))
  /\ Len(result.domains) = 3

\* preview has returned a result whose whole expansion the model materialises
Previewed ==
  /\ Called("preview")
  /\ result.type = "preview"
  /\ WholeWithin(ast.node, variableMap)

\* the preview lacks a domain of the expansion
OmitsOne == \E d \in DistinctDomains : d \notin Range(result.domains)

RECURSIVE GroupedText(_, _, _)
GroupedText(text, p, grouped) ==
  IF p > Len(text) THEN <<>>
  ELSE IF text[p] # "@" THEN <<text[p]>> \o GroupedText(text, p + 1, grouped)
  ELSE grouped[NameFrom(text, p + 1)]
         \o GroupedText(text, p + 1 + Len(NameFrom(text, p + 1)), grouped)

\* the value of each variable defined on the lines, every reference inside
\* it replaced by the parenthesised value of the variable it names, and the
\* whole between parentheses
RECURSIVE GroupedStrings(_, _, _)
GroupedStrings(lines, i, grouped) ==
  IF i > Len(lines) THEN grouped
  ELSE IF IsDefinition(lines[i])
  THEN GroupedStrings(lines, i + 1,
         MapSet(grouped, DefinedName(lines[i]),
                <<"(">> \o GroupedText(trim(ReferringText(lines[i])), 1, grouped) \o <<")">>))
  ELSE GroupedStrings(lines, i + 1, grouped)

\* an expression line with each @name replaced by '(value)'
GroupedLine(lines, i) ==
  GroupedText(lines[i], 1, GroupedStrings(SubSeq(lines, 1, i - 1), 1, EmptyMap))

\* the domains of the expression lines read with every reference as one
\* parenthesised element
GroupedDomains(lines) ==
  UNION { Range(expand(parse(GroupedLine(lines, i)).node, disabled, EmptyMap).domains) :
            i \in {j \in 1..Len(lines) : ~IsDefinition(lines[j])} }

\* expandDocument has returned the domains of a parsed document
DocumentExpanded ==
  /\ Called("expandDocument")
  /\ input.type = "document"
  /\ result.type = "domains"

\* the reference at p fills a whole place of the text: it starts the text
\* or follows '.', ',', '{' or '(', and it ends the text or precedes '.',
\* ',', '}' or ')'
FillsPlace(text, p) ==
  /\ p = 1 \/ text[p - 1] \in {".", ",", "{", "("}
  /\ \/ p + Len(NameFrom(text, p + 1)) = Len(text)
     \/ text[p + Len(NameFrom(text, p + 1)) + 1] \in {".", ",", "}", ")"}

\* every reference of the document fills a whole place
ReferencesFillPlaces(lines) ==
  \A i \in 1..Len(lines) :
    \A p \in 1..Len(trim(ReferringText(lines[i]))) :
      trim(ReferringText(lines[i]))[p] = "@" => FillsPlace(trim(ReferringText(lines[i])), p)

\* the document holds a reference
Refers(lines) == \E i \in 1..Len(lines) : "@" \in Range(ReferringText(lines[i]))

ErrorFrames(stack) == {k \in 1..Len(stack) : stack[k].out.type = "ExpansionError"}

\* the frame has expanded no expression and holds no output string
NothingGenerated(frame) ==
  /\ frame.allDomains = <<>>
  /\ frame.i = 1
  /\ frame.remaining = frame.limit

\* the step is a call of expand or preview on an expression
ExpressionStep ==
  /\ pc = "parsed"
  /\ pc' = "called"
  /\ running = <<>>
  /\ call'.op \in {"expand", "preview"}

\* C28: in expand, expandDocument, preview and previewDocument the
\* cardinality check comes before any generation: a document operation ends
\* in ExpansionError only by its size check, taken while no expression has
\* been expanded and no output string has been built, and a call on an
\* expression ends in ExpansionError exactly when the size computed from the
\* AST exceeds an enabled maxExpansion.
C28_CheckBeforeGeneration ==
  [][/\ \A k \in ErrorFrames(running') :
          /\ NothingGenerated(running'[k])
          /\ k <= Len(running)
          /\ k \in ErrorFrames(running) \/ (running[k].at = "check" /\ NothingGenerated(running[k]))
     /\ \A k \in 1..Len(running) :
          (k <= Len(running') /\ running[k].at = "expand")
            => running'[k].out.type # "ExpansionError"
     /\ ExpressionStep =>
          (result'.type = "ExpansionError" <=>
             /\ limitEnabled(maxExpansionOf(call'.options))
             /\ exceeds(expansionSize(ast.node, variableMap), maxExpansionOf(call'.options)))
    ]_vars

\* a document operation on two expressions is about to throw ExpansionError
\* from its size check
C28_Witness ==
  /\ running # <<>>
  /\ Top.op \in {"expandDocument", "previewDocument"}
  /\ Top.out.type = "ExpansionError"
  /\ Top.at = "clear"
  /\ Len(Top.doc.expressions) >= 2
  /\ NothingGenerated(Top)

\* the step returns from a document function, to the caller or to the
\* operation that read the accessor
DocumentReturns == Len(running') < Len(running)

\* C29: after expandDocument, previewDocument or documentExpansionSize
\* finishes, whether it returns or throws ExpansionError, the module-level
\* variable table is empty, whatever it contained before the call.
C29_TableEmptyAfterDocument ==
  [][/\ DocumentReturns => variableMap' = EmptyMap
     /\ (pc' = "called" /\ call'.op \in DocumentOperations) => variableMap' = EmptyMap
    ]_vars

\* a document function has thrown ExpansionError to a caller that had
\* installed bindings with setVariables, and the table is empty
C29_Witness ==
  /\ pc = "called"
  /\ call.op \in {"expandDocument", "previewDocument"}
  /\ result.type = "ExpansionError"
  /\ prior # None
  /\ prior.bindings # EmptyMap
  /\ variableMap = EmptyMap

\* the element sequence holds a VarRef node, at any depth
RECURSIVE RefersSequence(_), RefersPrimary(_)
RefersSequence(elements) == \E i \in 1..Len(elements) : RefersPrimary(elements[i].primary)

RefersPrimary(p) ==
  CASE p.type = "varref" -> TRUE
    [] p.type = "group" -> RefersSequence(p.elements)
    [] p.type = "alternation" -> \E o \in 1..Len(p.options) : RefersSequence(p.options[o])
    [] OTHER -> FALSE

\* the expression holds a VarRef node
RefersDomain(a) == \E l \in 1..Len(a.labels) : RefersSequence(a.labels[l].elements)

\* a table that binds every name the inputs use
SomeBindings == [n \in {<<"a">>, <<"b">>, <<"t">>} |-> <<LiteralElement(<<"q">>)>>]

\* C30: no AST returned by parse or parseDocument, neither an expression nor
\* a VariableDef's elements, contains a VarRef node: parse rejects every
\* input containing '@' with ParseError, parseDocument leaves no reference
\* in what it parses, and the size of a parsed expression is the same under
\* any variable table.
C30_NoVarRefParsed ==
  /\ (pc # "idle" /\ input.type = "expression") =>
       /\ "@" \in Range(input.text) => (~ast.ok /\ ast.type = "ParseError")
       /\ ast.ok =>
            /\ ~RefersDomain(ast.node)
            /\ expansionSize(ast.node, SomeBindings) = expansionSize(ast.node, EmptyMap)
  /\ (pc # "idle" /\ input.type = "document" /\ ast.ok) =>
       /\ \A e \in 1..Len(ast.node.expressions) : ~RefersDomain(ast.node.expressions[e])
       /\ \A v \in 1..Len(ast.node.variables) : ~RefersSequence(ast.node.variables[v].elements)

\* a document whose definition and whose expression refer to variables has
\* been parsed
C30_Witness ==
  /\ pc = "parsed"
  /\ input.type = "document"
  /\ \E i \in 1..Len(input.lines) :
       IsDefinition(input.lines[i]) /\ "@" \in Range(ReferringText(input.lines[i]))
  /\ \E i \in 1..Len(input.lines) :
       ~IsDefinition(input.lines[i]) /\ "@" \in Range(input.lines[i])
  /\ Len(ast.node.variables) >= 2
  /\ \A e \in 1..Len(ast.node.expressions) : ~RefersDomain(ast.node.expressions[e])
  /\ \A v \in 1..Len(ast.node.variables) : ~RefersSequence(ast.node.variables[v].elements)


====
